---- MODULE Spec2Model ----
(***************************************************************************)
(* Model of gibme-npm/sql: the embedded-engine (SQLite) write serializer   *)
(* with its instance registry, the transaction choreography of the engine  *)
(* adapters (MySQL/MariaDB, Postgres, SQLite, LibSQL) and their use of the *)
(* connection pool, the synthesizer of bulk INSERT, upsert, CREATE TABLE   *)
(* and CREATE INDEX statements of the abstract Database class, use(), and  *)
(* the placeholder rewriting of the Postgres adapter.                      *)
(*                                                                         *)
(* JavaScript runs every continuation to its next await without            *)
(* interleaving, so one action is one such run: from a public call or a    *)
(* native callback up to the next await of that async function.            *)
(***************************************************************************)
EXTENDS Integers, Sequences, FiniteSets, TLC

(***************************************************************************)
(* Bounds                                                                  *)
(***************************************************************************)
\* number of public calls issued against the SQLite handles in one behaviour
MaxCalls == 3
\* number of SQLiteInstance objects the process may construct
MaxInst == 2
\* length of the statement list of one transaction() call
MaxStmts == 2
\* number of rows handed to one multi-insert or multi-update
MaxRows == 2
\* number of createTable / createIndex / dropTable calls on one handle
MaxDdl == 2
\* number of engine handles use() may bring into being
MaxHandles == 3
\* number of transaction() / query() calls that run concurrently on one pool
MaxTx == 2
\* connectionLimit / max of the pool
MaxConns == 2
\* length of the statement text handed to transformQuery, in characters
MaxLen == 3

(***************************************************************************)
(* Embedded engine: handles, registry, instances                           *)
(***************************************************************************)
\* SQLite handle objects; both are configured with the same filename
Handles == {"h1", "h2"}
\* resolved absolute paths (registry keys, digest(resolve(cwd, filename)))
Paths == {"p1"}
HandlePath(h) == "p1"

Calls == 1..MaxCalls
Insts == 1..MaxInst
NoInst == 0

QueueOps == {"query", "transaction"}
PragmaOps == {"getPragma", "setPragma"}
Ops == QueueOps \cup PragmaOps \cup {"close"}

VARIABLES
    registry,   \* SQLiteInstanceManager.instances : path -> instance
    hdb,        \* SQLite.database field of each handle
    nInst,      \* number of SQLiteInstance objects constructed so far
    native,     \* state of the sqlite3 Database of each instance
    statementQueue, \* SQLiteInstance.statementQueue (entries are call ids)
    stopping,   \* SQLiteInstance.stopping
    loopPc,     \* position of the constructor's polling loop
    trailing,   \* COMMIT/ROLLBACK of finished transaction entries that the
                \* sqlite3 handle has been given and has not completed
    callOp,     \* operation of each public call
    callH,      \* handle the call was issued on
    callInst,   \* instance the call is working on
    callPc      \* position of the call

serVars == <<registry, hdb, nInst, native, statementQueue, stopping, loopPc,
             trailing, callOp, callH, callInst, callPc>>

VARIABLES
    txEngine,   \* Database.Type of the handle transaction() is called on
    txHttp,     \* LibSQL only: config.url starts with 'http'
    txQueries,  \* the statement list: noError flag of each statement
    txPc,       \* position inside transaction()
    txIdx,      \* index of the statement the for-loop is at
    txLog,      \* commands issued to the driver, in order
    txOut,      \* outcome of each statement that was executed
    txResults,  \* the results array (indices of the originating statements)
    txPending,  \* the error caught by the outer catch block
    txRaised,   \* what transaction() finally threw, or "none"
    txConn,     \* pooled engines: state of the acquired connection
    txInFlight, \* SQLite: BEGIN/COMMIT/ROLLBACK handed to the sqlite3 handle
                \* without a callback and not completed by it yet
    txLost,     \* Postgres: statements the server executed whose _query
                \* threw on releasing the client a second time
    txEvents    \* SQLite: commands whose failure reached the handle's
                \* 'error' listener instead of _transaction

txVars == <<txEngine, txHttp, txQueries, txPc, txIdx, txLog, txOut,
            txResults, txPending, txRaised, txConn, txInFlight, txLost,
            txEvents>>

VARIABLES
    synRev,         \* revision of database.ts the handle runs
    synType,        \* Database.type of the handle
    synColumns,     \* argument columns
    synPrimaryKey,  \* argument primaryKey (multi-update only)
    synValues,      \* argument values: the rows
    synOp,          \* the public method that was called
    synUseTx,       \* argument useTransaction
    synPc,          \* position of the call
    synPrepared,    \* what the prepare step returned or threw
    synIdx,         \* statements the backend has completed
    synBackend,     \* calls made to this.transaction() / this.query()
    dbTable,        \* rows of the table on the server
    dbStart,        \* the rows and the names on the server when the call
                    \* was made
    dbCatalog,      \* the tables and indexes on the server
    synCalls        \* calls made on the handle so far

synVars == <<synRev, synType, synColumns, synPrimaryKey, synValues, synOp,
             synUseTx, synPc, synPrepared, synIdx, synBackend, dbTable,
             dbStart, dbCatalog, synCalls>>

VARIABLES
    useHandles,     \* the engine handles that exist: class and config
    useCall         \* the last use() call: receiver, its config before the
                    \* call, argument, what was returned or that it raised

useVars == <<useHandles, useCall>>

VARIABLES
    poolEngine,     \* Database.Type of the handle whose pool this is
    poolIdle,       \* the pool: connections that are idle, oldest first
    poolMade,       \* the pool: connections created so far
    pcKind,         \* per call: "transaction" or "query"
    pcQueries,      \* per call: the statements, each its noError flag
    pcPc,           \* per call: position inside transaction() / query()
    pcIdx,          \* per call: index of the statement the for-loop is at
    pcConn          \* per call: the connection the call works with

poolVars == <<poolEngine, poolIdle, poolMade, pcKind, pcQueries, pcPc, pcIdx,
              pcConn>>

VARIABLES
    tqInput,        \* the argument of transformQuery
    tqQuery,        \* its local `query`
    tqCounter,      \* its local `counter`
    tqPc            \* position inside transformQuery

tqVars == <<tqInput, tqQuery, tqCounter, tqPc>>

vars == <<serVars, txVars, synVars, useVars, poolVars, tqVars>>

(***************************************************************************)
(* SQLiteInstance: queue, polling loop, close                              *)
(***************************************************************************)
\* statements the sqlite3 handle of instance i has been given and has not
\* called back for: dequeued entries and direct _all/_run calls
InFlight(i) ==
    {c \in Calls : callInst[c] = i /\ callPc[c] \in {"exec", "wal", "fk"}}

\* dequeued queue entries whose callback has not fired yet
Executing(i) ==
    {c \in InFlight(i) : callPc[c] = "exec" /\ callOp[c] \in QueueOps}

\* the loop after it has handed an entry to _transaction/_all/_run: it
\* awaits the result before it looks at the queue again
AfterDequeue == "await"

\* results the driver can call back with
Outcomes(i) == IF native[i] = "closed" THEN {"err"} ELSE {"ok", "err"}

\* this.database.close(cb) is invoked
NativeClose(i) == [native EXCEPT ![i] = IF @ = "open" THEN "closing" ELSE @]

\* a dequeue that would leave the entry at the head of the queue
shiftKept(queue) == queue

\* this.statementQueue.shift(): the queue without its first entry
shift(queue) == Tail(queue)

\* what the loop calls entry.callback with: (undefined, results) after the
\* await in the try block, (error) in the catch block, and an error
\* together with an empty list for an entry of unknown type
Arguments(type, r) ==
    IF type \notin QueueOps THEN [error |-> TRUE, results |-> TRUE]
    ELSE IF r = "ok" THEN [error |-> FALSE, results |-> TRUE]
    ELSE [error |-> TRUE, results |-> FALSE]

\* the callback of the entry, built by query() / transaction(): reject on
\* an error or on missing results, resolve otherwise
callback(args) ==
    IF args.error THEN "err" ELSE IF ~args.results THEN "err" ELSE "ok"

\* a query / transaction that would put its entry in front of the queue
EnqueueFront(c, i) ==
    /\ statementQueue' = [statementQueue EXCEPT ![i] = <<c>> \o @]
    /\ callPc' = [callPc EXCEPT ![c] = "queued"]
    /\ callInst' = [callInst EXCEPT ![c] = i]
    /\ UNCHANGED <<stopping, native>>

\* SQLiteInstance.query / .transaction: push an entry, return the promise
Enqueue(c, i) ==
    /\ statementQueue' = [statementQueue EXCEPT ![i] = Append(@, c)]
    /\ callPc' = [callPc EXCEPT ![c] = "queued"]
    /\ callInst' = [callInst EXCEPT ![c] = i]
    /\ UNCHANGED <<stopping, native>>

\* a getPragma/setPragma that would go through the statement queue
PragmaQueued(c, i) == Enqueue(c, i)

\* SQLiteInstance.getPragma / .setPragma: call _all / _run directly
Pragma(c, i) ==
    /\ callPc' = [callPc EXCEPT ![c] = "exec"]
    /\ callInst' = [callInst EXCEPT ![c] = i]
    /\ UNCHANGED <<statementQueue, stopping, native>>

\* a close() that would not set the stopping flag
CloseUnflagged(c, i) ==
    /\ UNCHANGED stopping
    /\ callInst' = [callInst EXCEPT ![c] = i]
    /\ IF statementQueue[i] # <<>>
       THEN /\ callPc' = [callPc EXCEPT ![c] = "poll"]
            /\ UNCHANGED native
       ELSE /\ callPc' = [callPc EXCEPT ![c] = "closing"]
            /\ native' = NativeClose(i)
    /\ UNCHANGED statementQueue

\* SQLiteInstance.close up to its first await
Close(c, i) ==
    /\ stopping' = [stopping EXCEPT ![i] = TRUE]
    /\ callInst' = [callInst EXCEPT ![c] = i]
    /\ IF statementQueue[i] # <<>>
       THEN /\ callPc' = [callPc EXCEPT ![c] = "poll"]
            /\ UNCHANGED native
       ELSE /\ callPc' = [callPc EXCEPT ![c] = "closing"]
            /\ native' = NativeClose(i)
    /\ UNCHANGED statementQueue

\* the operation of the handle, once getInstance() has returned instance i:
\* `return db.query(...)`, the handle is not looked at again
Dispatch(c, op, i) ==
    /\ callOp' = [callOp EXCEPT ![c] = op]
    /\ callH' = [callH EXCEPT ![c] = "none"]
    /\ CASE op \in QueueOps -> Enqueue(c, i)
         [] op \in PragmaOps -> Pragma(c, i)
         [] OTHER -> Close(c, i)

(***************************************************************************)
(* SQLite handle: public calls, getInstance, SQLiteInstanceManager.get     *)
(***************************************************************************)
\* calls are numbered in the order they are issued
NextCall(c) == callPc[c] = "new" /\ \A d \in Calls : d < c => callPc[d] # "new"

\* the frame of a call that has returned or thrown: result r is kept, the
\* locals are gone
Settle(c, r) ==
    /\ callPc' = [callPc EXCEPT ![c] = r]
    /\ callOp' = [callOp EXCEPT ![c] = "none"]
    /\ callH' = [callH EXCEPT ![c] = "none"]
    /\ callInst' = [callInst EXCEPT ![c] = NoInst]

\* a public call on handle h, up to the first await that leaves the run.
\* Every public method starts with `await this.getInstance()`; which
\* method it is (op) shows only once that has returned.  The two handles
\* are interchangeable as long as neither has been used, so the first use
\* is taken to be on h1.
CallStart(c, h, op) ==
    /\ NextCall(c)
    /\ h = "h2" => (c > 1 \/ hdb["h1"] # NoInst)
    /\ IF hdb[h] # NoInst
       THEN \* getInstance: this.database is set
            /\ Dispatch(c, op, hdb[h])
            /\ UNCHANGED hdb
       ELSE IF registry[HandlePath(h)] # NoInst
       THEN \* SQLiteInstanceManager.get finds the instance; getInstance
            \* stores it and issues the journal_mode pragma
            /\ hdb' = [hdb EXCEPT ![h] = registry[HandlePath(h)]]
            /\ callH' = [callH EXCEPT ![c] = h]
            /\ callInst' = [callInst EXCEPT ![c] = registry[HandlePath(h)]]
            /\ callPc' = [callPc EXCEPT ![c] = "wal"]
            /\ UNCHANGED <<callOp, statementQueue, stopping, native>>
       ELSE \* SQLiteInstanceManager.get awaits SQLiteInstance.load
            /\ callH' = [callH EXCEPT ![c] = h]
            /\ callPc' = [callPc EXCEPT ![c] = "opening"]
            /\ UNCHANGED <<callOp, hdb, callInst, statementQueue, stopping,
                           native>>
    /\ UNCHANGED <<registry, nInst, loopPc, trailing>>
    /\ UNCHANGED <<txVars, synVars, useVars, poolVars, tqVars>>

\* the native open succeeds: load constructs the instance (its loop runs to
\* the first sleep), get registers it, getInstance stores it in the handle
\* and issues the journal_mode pragma
OpenDone(c) ==
    /\ callPc[c] = "opening"
    /\ nInst < MaxInst
    /\ LET i == nInst + 1 IN
        /\ nInst' = i
        /\ native' = [native EXCEPT ![i] = "open"]
        /\ loopPc' = [loopPc EXCEPT ![i] = "sleep"]
        /\ registry' = [registry EXCEPT ![HandlePath(callH[c])] = i]
        /\ hdb' = [hdb EXCEPT ![callH[c]] = i]
        /\ callInst' = [callInst EXCEPT ![c] = i]
        /\ callPc' = [callPc EXCEPT ![c] = "wal"]
    /\ UNCHANGED <<statementQueue, stopping, trailing, callOp, callH>>
    /\ UNCHANGED <<txVars, synVars, useVars, poolVars, tqVars>>

\* the native open fails: load, get, getInstance and the call reject
OpenFail(c) ==
    /\ callPc[c] = "opening"
    /\ Settle(c, "err")
    /\ UNCHANGED <<registry, hdb, nInst, native, statementQueue, stopping,
                   loopPc, trailing>>
    /\ UNCHANGED <<txVars, synVars, useVars, poolVars, tqVars>>

\* getInstance: setPragma('journal_mode') called back; on success the
\* foreign_keys pragma is issued on this.database
WalDone(c, r) ==
    /\ callPc[c] = "wal"
    /\ r \in Outcomes(callInst[c])
    /\ IF r = "ok"
       THEN /\ callPc' = [callPc EXCEPT ![c] = "fk"]
            /\ callInst' = [callInst EXCEPT ![c] = hdb[callH[c]]]
            /\ UNCHANGED <<callOp, callH>>
       ELSE Settle(c, "err")
    /\ UNCHANGED <<registry, hdb, nInst, native, statementQueue, stopping,
                   loopPc, trailing>>
    /\ UNCHANGED <<txVars, synVars, useVars, poolVars, tqVars>>

\* getInstance: setPragma('foreign_keys') called back; on success
\* getInstance returns this.database and the method goes on with it
FkDone(c, r, op) ==
    /\ callPc[c] = "fk"
    /\ r \in Outcomes(callInst[c])
    /\ IF r = "ok"
       THEN Dispatch(c, op, hdb[callH[c]])
       ELSE /\ Settle(c, "err")
            /\ UNCHANGED <<statementQueue, stopping, native>>
    /\ UNCHANGED <<registry, hdb, nInst, loopPc, trailing>>
    /\ UNCHANGED <<txVars, synVars, useVars, poolVars, tqVars>>

(***************************************************************************)
(* The polling loop of the constructor                                     *)
(***************************************************************************)
\* sleep(queueScanInterval) returns: the outer while tests stopping, the
\* inner while shifts the first entry and awaits its execution
LoopWake(i) ==
    /\ loopPc[i] = "sleep"
    /\ IF stopping[i]
       THEN /\ loopPc' = [loopPc EXCEPT ![i] = "exited"]
            /\ UNCHANGED <<statementQueue, callPc>>
       ELSE /\ statementQueue[i] # <<>>
            /\ statementQueue' = [statementQueue EXCEPT ![i] = shift(@)]
            /\ callPc' = [callPc EXCEPT ![Head(statementQueue[i])] = "exec"]
            /\ loopPc' = [loopPc EXCEPT ![i] = AfterDequeue]
    /\ UNCHANGED <<registry, hdb, nInst, native, stopping, trailing, callOp,
                   callH, callInst>>
    /\ UNCHANGED <<txVars, synVars, useVars, poolVars, tqVars>>

\* a loop whose try block would have no catch
CaughtOnSuccess(r) == r = "ok"

\* `try { ... await this._run(...) ... } catch (error) {
\* entry.callback(error) }` inside the inner while: the rejection of an
\* execution does not leave the loop
Caught(r) == TRUE

\* the execution of a dequeued entry calls back: entry.callback settles the
\* caller's promise and the inner while goes on with the next entry, or
\* falls through to sleep.  _transaction ends with database.run('COMMIT')
\* or database.run('ROLLBACK'): run is given no callback and returns the
\* Database, so the await does not wait for the statement
EntryDone(c, r) ==
    /\ callPc[c] = "exec"
    /\ callOp[c] \in QueueOps
    /\ r \in Outcomes(callInst[c])
    /\ trailing' = [trailing EXCEPT ![callInst[c]] =
                        IF callOp[c] = "transaction" THEN @ + 1 ELSE @]
    /\ LET i == callInst[c]
           q == statementQueue[i]
           settled == callback(Arguments(callOp[c], r)) IN
        IF ~Caught(r)
        THEN \* the rejection leaves the async function of the loop
             /\ loopPc' = [loopPc EXCEPT ![i] = "exited"]
             /\ callPc' = [callPc EXCEPT ![c] = "pending"]
             /\ UNCHANGED <<statementQueue, callOp, callInst>>
        ELSE
        /\ callOp' = [callOp EXCEPT ![c] = "none"]
        /\ callInst' = [callInst EXCEPT ![c] = NoInst]
        /\ IF q # <<>>
           THEN /\ statementQueue' = [statementQueue EXCEPT ![i] = shift(q)]
                /\ callPc' = [callPc EXCEPT ![c] = settled,
                                            ![Head(q)] = "exec"]
                /\ loopPc' = [loopPc EXCEPT ![i] = AfterDequeue]
           ELSE /\ callPc' = [callPc EXCEPT ![c] = settled]
                /\ loopPc' = [loopPc EXCEPT ![i] = "sleep"]
                /\ UNCHANGED statementQueue
    /\ UNCHANGED <<registry, hdb, nInst, native, stopping, callH>>
    /\ UNCHANGED <<txVars, synVars, useVars, poolVars, tqVars>>

\* the sqlite3 handle completes a COMMIT/ROLLBACK it was given; nothing
\* in the program is told
TrailingDone(i) ==
    /\ trailing[i] > 0
    /\ trailing' = [trailing EXCEPT ![i] = @ - 1]
    /\ UNCHANGED <<registry, hdb, nInst, native, statementQueue, stopping,
                   loopPc, callOp, callH, callInst, callPc>>
    /\ UNCHANGED <<txVars, synVars, useVars, poolVars, tqVars>>

\* the direct _all/_run of getPragma/setPragma calls back
PragmaDone(c, r) ==
    /\ callPc[c] = "exec"
    /\ callOp[c] \in PragmaOps
    /\ r \in Outcomes(callInst[c])
    /\ Settle(c, r)
    /\ UNCHANGED <<registry, hdb, nInst, native, statementQueue, stopping,
                   loopPc, trailing>>
    /\ UNCHANGED <<txVars, synVars, useVars, poolVars, tqVars>>

\* close: sleep returns with the queue empty, the native close is invoked
\* (with the queue non-empty close() sleeps again, which changes nothing)
ClosePollWake(c) ==
    /\ callPc[c] = "poll"
    /\ statementQueue[callInst[c]] = <<>>
    /\ callPc' = [callPc EXCEPT ![c] = "closing"]
    /\ native' = NativeClose(callInst[c])
    /\ UNCHANGED <<registry, hdb, nInst, statementQueue, stopping, loopPc,
                   trailing, callOp, callH, callInst>>
    /\ UNCHANGED <<txVars, synVars, useVars, poolVars, tqVars>>

\* the native close calls back: the handle is closed, or the close failed
\* and the handle stays open
CloseDone(c, r) ==
    /\ callPc[c] = "closing"
    /\ r \in {"ok", "err"}
    /\ r = "ok" => native[callInst[c]] = "closing"
    /\ Settle(c, r)
    /\ native' = [native EXCEPT ![callInst[c]] =
                    IF @ = "closing"
                    THEN (IF r = "ok" THEN "closed" ELSE "open")
                    ELSE @]
    /\ UNCHANGED <<registry, hdb, nInst, statementQueue, stopping, loopPc,
                   trailing>>
    /\ UNCHANGED <<txVars, synVars, useVars, poolVars, tqVars>>

(***************************************************************************)
(* transaction(queries) of the engine adapters                             *)
(***************************************************************************)
\* Database.Type; MariaDB is the MySQL class constructed with MARIADB
Engines == {"MYSQL", "MARIADB", "POSTGRES", "SQLITE", "LIBSQL"}
MySQLFamily == {"MYSQL", "MARIADB"}
Pooled == MySQLFamily \cup {"POSTGRES"}

\* LibSQL.transactionsEnabled: false when the url starts with 'http'
transactionsEnabledAlways == TRUE
transactionsEnabled == ~txHttp

\* the else branch of LibSQL.transaction
Batched == txEngine = "LIBSQL" /\ ~transactionsEnabled

NoError == <<"none", 0>>

\* SQLiteInstance._transaction issues BEGIN/COMMIT/ROLLBACK through
\* database.run(sql) without a callback: it never sees them fail
Results(e) == IF e = "SQLITE" THEN {"ok"} ELSE {"ok", "err"}

\* database.run(sql) of SQLiteInstance._transaction: the command is with
\* the handle, the await does not wait for it
Unawaited(cmd) ==
    IF txEngine = "SQLITE" THEN txInFlight \cup {cmd} ELSE txInFlight

\* a catch block that would ignore the noError flag
ToleratedNever(i) == FALSE

\* query.noError: the failure of statement i is swallowed
Tolerated(i) == txQueries[i]

\* a transaction() without its finally block
FinallyMissing(log, conn) == <<log, conn>>

\* the finally block of the pooled engines: MySQL calls
\* connection.release(); Postgres.release swallows the error pg throws
\* for a client that has already been released
Finally(log, conn) ==
    IF txEngine \notin Pooled THEN <<log, conn>>
    ELSE IF conn = "released" THEN <<Append(log, <<"RELEASE", 1>>), conn>>
    ELSE <<Append(log, <<"RELEASE", 0>>), "released">>

\* connection(): a connection is taken from the pool, outside the try
TxAcquire(r) ==
    /\ txPc = "start"
    /\ txEngine \in Pooled
    /\ r \in {"ok", "err"}
    /\ IF r = "ok"
       THEN /\ txConn' = "held"
            /\ txPc' = "begin"
            /\ UNCHANGED txRaised
       ELSE /\ txRaised' = <<"connect", 0>>
            /\ txPc' = "done"
            /\ UNCHANGED txConn
    /\ UNCHANGED <<txEngine, txHttp, txQueries, txIdx, txLog, txOut,
                   txResults, txPending, txInFlight, txLost>>
    /\ UNCHANGED txEvents
    /\ UNCHANGED <<serVars, synVars, useVars, poolVars, tqVars>>

\* beginTransaction: inside the try for the pooled engines and for
\* SQLiteInstance._transaction, before the try for LibSQL
TxBegin(r) ==
    /\ \/ txPc = "begin" /\ txEngine \in Pooled
       \/ txPc = "start" /\ txEngine = "SQLITE"
       \/ txPc = "start" /\ txEngine = "LIBSQL" /\ transactionsEnabled
    /\ r \in Results(txEngine)
    /\ txLog' = Append(txLog, <<"BEGIN", 0>>)
    /\ txInFlight' = Unawaited("BEGIN")
    /\ IF r = "ok"
       THEN /\ txPc' = "stmt"
            /\ txIdx' = 1
            /\ UNCHANGED <<txPending, txRaised>>
       ELSE IF txEngine = "LIBSQL"
       THEN /\ txRaised' = <<"begin", 0>>
            /\ txPc' = "done"
            /\ UNCHANGED <<txIdx, txPending>>
       ELSE /\ txPending' = <<"begin", 0>>
            /\ txPc' = "rollback"
            /\ UNCHANGED <<txIdx, txRaised>>
    /\ UNCHANGED <<txEngine, txHttp, txQueries, txOut, txResults, txConn,
                   txLost>>
    /\ UNCHANGED txEvents
    /\ UNCHANGED <<serVars, synVars, useVars, poolVars, tqVars>>

\* a for-loop that would walk the list from its end
StmtAtReversed(k) == Len(txQueries) + 1 - k

\* `for (const query of queries)`: turn k of the loop takes statement k
StmtAt(k) == k

\* one turn of the for-loop: the statement is executed and awaited.
\* Postgres._query releases the client after a successful statement, and
\* pg throws when a client is released a second time
TxStmt(r) ==
    /\ txPc = "stmt"
    /\ txIdx <= Len(txQueries)
    /\ r \in {"ok", "err"}
    /\ LET i == StmtAt(txIdx)
           rel == txEngine = "POSTGRES" /\ r = "ok"
           eff == IF rel /\ txConn = "released" THEN "err" ELSE r
       IN
        /\ txLog' = IF rel
                    THEN txLog \o << <<"S", i>>,
                            <<"RELEASE", IF txConn = "released" THEN 1 ELSE 0>> >>
                    ELSE Append(txLog, <<"S", i>>)
        /\ txConn' = IF rel THEN "released" ELSE txConn
        /\ txOut' = Append(txOut, eff)
        /\ txLost' = IF eff # r THEN txLost \cup {i} ELSE txLost
        /\ IF eff = "ok"
           THEN /\ txResults' = Append(txResults, i)
                /\ txIdx' = txIdx + 1
                /\ UNCHANGED <<txPc, txPending>>
           ELSE IF Tolerated(i)
           THEN /\ txIdx' = txIdx + 1
                /\ UNCHANGED <<txPc, txPending, txResults>>
           ELSE /\ txPending' = <<"stmt", i>>
                /\ txPc' = "rollback"
                /\ UNCHANGED <<txIdx, txResults>>
    /\ UNCHANGED <<txEngine, txHttp, txQueries, txRaised, txInFlight>>
    /\ UNCHANGED txEvents
    /\ UNCHANGED <<serVars, synVars, useVars, poolVars, tqVars>>

\* the for-loop is over: commitTransaction, return results, finally
TxCommit(r) ==
    /\ txPc = "stmt"
    /\ txIdx > Len(txQueries)
    /\ r \in Results(txEngine)
    /\ txInFlight' = Unawaited("COMMIT")
    /\ IF r = "ok"
       THEN /\ txLog' = Finally(Append(txLog, <<"COMMIT", 0>>), txConn)[1]
            /\ txConn' = Finally(txLog, txConn)[2]
            /\ txPc' = "done"
            /\ UNCHANGED txPending
       ELSE /\ txLog' = Append(txLog, <<"COMMIT", 0>>)
            /\ txPending' = <<"commit", 0>>
            /\ txPc' = "rollback"
            /\ UNCHANGED txConn
    /\ UNCHANGED <<txEngine, txHttp, txQueries, txIdx, txOut, txResults,
                   txRaised, txLost>>
    /\ UNCHANGED txEvents
    /\ UNCHANGED <<serVars, synVars, useVars, poolVars, tqVars>>

\* the outer catch: rollbackTransaction is awaited, then the caught error
\* is thrown; a failing rollback throws out of the catch block instead
TxRollback(r) ==
    /\ txPc = "rollback"
    /\ r \in Results(txEngine)
    /\ txLog' = Finally(Append(txLog, <<"ROLLBACK", 0>>), txConn)[1]
    /\ txConn' = Finally(txLog, txConn)[2]
    /\ txRaised' = IF r = "ok" THEN txPending ELSE <<"rollback", 0>>
    /\ txInFlight' = Unawaited("ROLLBACK")
    /\ txPc' = "done"
    /\ UNCHANGED <<txEngine, txHttp, txQueries, txIdx, txOut, txResults,
                   txPending, txLost>>
    /\ UNCHANGED txEvents
    /\ UNCHANGED <<serVars, synVars, useVars, poolVars, tqVars>>

\* LibSQL over http: one database.batch call with all statements; the
\* batch succeeds as a whole (k = 0) or fails at statement k
TxBatch(k) ==
    /\ txPc = "start"
    /\ Batched
    /\ k \in 0..Len(txQueries)
    /\ LET n == IF k = 0 THEN Len(txQueries) ELSE k IN
        /\ txLog' = << <<"BATCH", 0>> >> \o [j \in 1..n |-> <<"S", j>>]
        /\ txOut' = [j \in 1..n |-> IF j = k THEN "err" ELSE "ok"]
    /\ IF k = 0
       THEN /\ txResults' = [j \in 1..Len(txQueries) |-> j]
            /\ UNCHANGED txRaised
       ELSE /\ txRaised' = <<"batch", k>>
            /\ UNCHANGED txResults
    /\ txPc' = "done"
    /\ UNCHANGED <<txEngine, txHttp, txQueries, txIdx, txPending, txConn,
                   txInFlight, txLost>>
    /\ UNCHANGED txEvents
    /\ UNCHANGED <<serVars, synVars, useVars, poolVars, tqVars>>

\* the sqlite3 handle completes a command it was given without a
\* callback; a failure is emitted as an 'error' event of the handle
TxUnawaitedDone(cmd, r) ==
    /\ cmd \in txInFlight
    /\ r \in {"ok", "err"}
    /\ txInFlight' = txInFlight \ {cmd}
    /\ txEvents' = IF r = "err" THEN txEvents \cup {cmd} ELSE txEvents
    /\ UNCHANGED <<txEngine, txHttp, txQueries, txPc, txIdx, txLog, txOut,
                   txResults, txPending, txRaised, txConn, txLost>>
    /\ UNCHANGED <<serVars, synVars, useVars, poolVars, tqVars>>

\* the statement lists transaction() is called with
QueryLists == UNION {[1..n -> BOOLEAN] : n \in 0..MaxStmts}

TxInit ==
    /\ txEngine \in Engines
    /\ txHttp \in BOOLEAN
    /\ txHttp => txEngine = "LIBSQL"
    /\ txQueries \in QueryLists
    /\ txPc = "start"
    /\ txIdx = 0
    /\ txLog = <<>>
    /\ txOut = <<>>
    /\ txResults = <<>>
    /\ txPending = NoError
    /\ txRaised = NoError
    /\ txConn = "none"
    /\ txInFlight = {}
    /\ txLost = {}
    /\ txEvents = {}

TxNext ==
    \/ \E r \in {"ok", "err"} : TxAcquire(r)
    \/ \E r \in {"ok", "err"} : TxBegin(r)
    \/ \E r \in {"ok", "err"} : TxStmt(r)
    \/ \E r \in {"ok", "err"} : TxCommit(r)
    \/ \E r \in {"ok", "err"} : TxRollback(r)
    \/ \E k \in 0..MaxStmts : TxBatch(k)
    \/ \E cmd \in {"BEGIN", "COMMIT", "ROLLBACK"} : \E r \in {"ok", "err"} :
           TxUnawaitedDone(cmd, r)


(***************************************************************************)
(* Statement synthesizer: prepareMultiInsert, prepareMultiUpdate and the   *)
(* multiInsert / multiUpdate calls built on them                           *)
(***************************************************************************)
\* the snapshot holds two revisions of the abstract Database class
Revisions == {"current", "earlier"}

\* Database.Type of the current revision
Type == {"MYSQL", "POSTGRES", "SQLITE", "MARIADB"}
\* the types the adapters of the earlier revision construct themselves with
EarlierTypes == {"MYSQL", "POSTGRES", "SQLITE", "LIBSQL"}
InstanceTypes(rev) == IF rev = "current" THEN Type ELSE EarlierTypes

\* the embedded engine and, in the earlier revision, its edge-replicated
\* variant
Embedded == {"SQLITE", "LIBSQL"}

\* the table the calls work on: two columns, the first is the primary key
TableName == "test_table"
TableColumns == <<"column1", "column2">>
TablePrimaryKey == <<"column1">>

Range(s) == {s[i] : i \in DOMAIN s}

\* escapeId: the identifier in the quoting of the dialect
escapeId(type, id) ==
    [quote |-> IF type = "POSTGRES" THEN "double" ELSE "backtick", id |-> id]

\* toPlaceholders(arr): one '?' per element, joined by ','; a group of
\* placeholders is written as the number of its '?'
toPlaceholders(arr) == Len(arr)

RECURSIVE Flatten(_)
\* parameters.push(..._values) over the rows, in row order
FlattenFirstRow(rows) == IF rows = <<>> THEN <<>> ELSE Head(rows)
Flatten(rows) ==
    IF rows = <<>> THEN <<>> ELSE Head(rows) \o Flatten(Tail(rows))

RECURSIVE Sum(_)
Sum(ns) == IF ns = <<>> THEN 0 ELSE Head(ns) + Sum(Tail(ns))

\* a statement without upsert clause
NoUpsert == [kind |-> "", target |-> <<>>, updates |-> <<>>]

\* the text `INSERT INTO <table><_columns> VALUES <groups joined by ','>`,
\* kept as its parts in the order they are concatenated; upsert is what
\* prepareMultiUpdate appends to it
InsertText(table, _columns, groups) ==
    [verb |-> "INSERT INTO", table |-> table, columns |-> _columns,
     groups |-> groups, upsert |-> NoUpsert]

\* number of '?' in the text of a statement
Placeholders(text) == Sum(text.groups)

Throw(message) == [error |-> message, queries |-> <<>>]
Return(queries) == [error |-> "", queries |-> queries]

\* a row whose length differs from the columns', when columns are given
ArityIgnored(columns, values) == FALSE
ArityMismatch(columns, values) ==
    /\ Len(columns) # 0
    /\ \E i \in DOMAIN values : Len(values[i]) # Len(columns)

\* the dialects that get one INSERT per row
PerRowNever(rev, databaseType) == FALSE
PerRow(rev, databaseType) ==
    \/ databaseType = "SQLITE"
    \/ rev = "earlier" /\ databaseType = "LIBSQL"

_prepareMultiInsert(rev, databaseType, table, columns, values) ==
    IF Len(values) = 0 THEN Throw("Must supply values")
    ELSE IF ArityMismatch(columns, values)
    THEN Throw("Column count does not match values count")
    ELSE
        LET _columns == [i \in DOMAIN columns |-> escapeId(databaseType, columns[i])]
            placeholder == IF Len(columns) # 0 THEN toPlaceholders(columns)
                           ELSE toPlaceholders(values[1])
        IN  IF PerRow(rev, databaseType)
            THEN Return([i \in DOMAIN values |->
                    [query |-> InsertText(escapeId(databaseType, table), _columns,
                                          <<toPlaceholders(values[i])>>),
                     values |-> values[i]]])
            ELSE Return(<<[query |-> InsertText(escapeId(databaseType, table), _columns,
                                                [i \in DOMAIN values |-> placeholder]),
                           values |-> Flatten(values)]>>)

\* the columns the upsert clause assigns: those not in primaryKey, in the
\* order of columns
NonKeyAll(columns, primaryKey) == columns
NonKey(columns, primaryKey) ==
    SelectSeq(columns, LAMBDA column : column \notin Range(primaryKey))

\* the MySQL family: MySQL and, in the current revision, MariaDB
OnDuplicateKey(rev, databaseType) ==
    \/ databaseType = "MYSQL"
    \/ rev = "current" /\ databaseType = "MARIADB"

\* the text appended to every statement: one assignment per non-key column,
\* `col = VALUES(col)` or `col = excluded.col`
UpsertOmitted(rev, databaseType, primaryKey, columns) == NoUpsert
Upsert(rev, databaseType, primaryKey, columns) ==
    LET assigned == NonKey(columns, primaryKey)
    IN  IF OnDuplicateKey(rev, databaseType)
        THEN [kind |-> "ON DUPLICATE KEY UPDATE",
              target |-> <<>>,
              updates |-> [i \in DOMAIN assigned |->
                  [column |-> escapeId(databaseType, assigned[i]),
                   from |-> "VALUES",
                   source |-> escapeId(databaseType, assigned[i])]]]
        ELSE [kind |-> "ON CONFLICT",
              target |-> [i \in DOMAIN primaryKey |-> escapeId(databaseType, primaryKey[i])],
              updates |-> [i \in DOMAIN assigned |->
                  [column |-> escapeId(databaseType, assigned[i]),
                   from |-> "excluded",
                   source |-> escapeId(databaseType, assigned[i])]]]

_prepareMultiUpdate(rev, databaseType, table, primaryKey, columns, values) ==
    IF Len(columns) = 0 THEN Throw("Must specify columns for multi-update")
    ELSE IF Len(primaryKey) = 0
    THEN Throw("Must specify primary key column(s) for multi-update")
    ELSE
        LET queries == _prepareMultiInsert(rev, databaseType, table, columns, values)
        IN  IF queries.error # "" THEN queries
            ELSE Return([i \in DOMAIN queries.queries |->
                    [query |-> [queries.queries[i].query EXCEPT
                                   !.upsert = Upsert(rev, databaseType, primaryKey, columns)],
                     values |-> queries.queries[i].values]])

\* public wrappers: the handle's own type is passed on
prepareMultiInsert(table, columns, values) ==
    _prepareMultiInsert(synRev, synType, table, columns, values)

prepareMultiUpdate(table, primaryKey, columns, values) ==
    _prepareMultiUpdate(synRev, synType, table, primaryKey, columns, values)

\* the prepare step threw, so the async method rejects at that point
ThrownLate(prepared) == FALSE
Thrown(prepared) == prepared.error # ""

(***************************************************************************)
(* The server side of the bulk tests: a table with a primary key, and what *)
(* an INSERT with or without upsert clause does to it                      *)
(***************************************************************************)
Position(s, e) == CHOOSE i \in DOMAIN s : s[i] = e

\* the column list an INSERT binds its groups to
StatementColumns(text) ==
    IF text.columns = <<>> THEN TableColumns
    ELSE [i \in DOMAIN text.columns |-> text.columns[i].id]

\* the server parses and binds the statement: every column of the table is
\* given once, every group has one '?' per column, one parameter is bound
\* per '?', and the upsert clause is of the server's dialect, names the
\* primary key as its conflict target and assigns something
Accepted(databaseType, q) ==
    LET cols == StatementColumns(q.query)
        u == q.query.upsert
    IN  /\ Len(cols) = Len(TableColumns)
        /\ Range(cols) = Range(TableColumns)
        /\ \A g \in DOMAIN q.query.groups : q.query.groups[g] = Len(cols)
        /\ Placeholders(q.query) = Len(q.values)
        /\ u.kind # "" =>
            /\ u.updates # <<>>
            /\ (u.kind = "ON DUPLICATE KEY UPDATE") <=> (databaseType \in {"MYSQL", "MARIADB"})
            /\ u.kind = "ON CONFLICT" =>
                   {u.target[i].id : i \in DOMAIN u.target} = Range(TablePrimaryKey)

\* the g-th VALUES group as a row of the table, in the table's column order
StatementRow(q, g) ==
    LET cols == StatementColumns(q.query)
    IN  [c \in DOMAIN TableColumns |->
            q.values[(g - 1) * Len(cols) + Position(cols, TableColumns[c])]]

KeyOf(row) ==
    [i \in DOMAIN TablePrimaryKey |-> row[Position(TableColumns, TablePrimaryKey[i])]]

\* one row reaches the table: inserted if its key is new; on a key that
\* exists the upsert clause assigns its columns from the new row, and
\* without the clause the server raises a duplicate-key error
ApplyRow(tbl, row, upsert) ==
    LET same == {t \in tbl : KeyOf(t) = KeyOf(row)}
        assigned == {upsert.updates[i].column.id : i \in DOMAIN upsert.updates}
    IN  IF same = {} THEN [ok |-> TRUE, table |-> tbl \cup {row}]
        ELSE IF upsert.kind = "" THEN [ok |-> FALSE, table |-> tbl]
        ELSE [ok |-> TRUE,
              table |-> (tbl \ same) \cup
                  {[c \in DOMAIN TableColumns |->
                      IF TableColumns[c] \in assigned THEN row[c] ELSE t[c]] : t \in same}]

RECURSIVE ApplyRows(_, _, _)
ApplyRows(tbl, q, g) ==
    IF g > Len(q.query.groups) THEN [ok |-> TRUE, table |-> tbl]
    ELSE LET r == ApplyRow(tbl, StatementRow(q, g), q.query.upsert)
         IN  IF r.ok THEN ApplyRows(r.table, q, g + 1) ELSE r

\* a statement takes effect as a whole or not at all
ApplyStatement(databaseType, tbl, q) ==
    IF ~Accepted(databaseType, q) THEN [ok |-> FALSE, table |-> tbl]
    ELSE LET r == ApplyRows(tbl, q, 1)
         IN  IF r.ok THEN r ELSE [ok |-> FALSE, table |-> tbl]

\* the table after the bulk insert of one row; a call finds the table
\* like this, or empty as createTable leaves it
TableAtStart == {<<1, 1>>}

(***************************************************************************)
(* Statement synthesizer: prepareCreateTable and prepareCreateIndex        *)
(***************************************************************************)
\* Database.Table.IndexType
IndexType == {"", "UNIQUE"}

\* String.toUpperCase / toLowerCase on the words that occur
toUpperCase(s) ==
    CASE s = "integer" -> "INTEGER"
      [] s = "unique" -> "UNIQUE"
      [] OTHER -> s
toLowerCase(s) ==
    CASE s = "INTEGER" -> "integer"
      [] s = "UNIQUE" -> "unique"
      [] OTHER -> s

\* typeof column.default !== 'undefined'
HasDefault(column) == "default" \in DOMAIN column

\* the default values of the columns that define one, in column order
DefaultsInlined(fields) == <<>>
Defaults(fields) ==
    LET defined == SelectSeq(fields, LAMBDA column : HasDefault(column))
    IN  [i \in DOMAIN defined |-> defined[i].default]

\* the column definitions of a CREATE TABLE and the values bound to their
\* DEFAULT ? placeholders
_prepareColumns(databaseType, fields) ==
    [columns |-> [i \in DOMAIN fields |->
        [name |-> escapeId(databaseType, fields[i].name),
         type |-> toUpperCase(fields[i].type),
         null |-> IF "nullable" \in DOMAIN fields[i] /\ fields[i].nullable
                  THEN "NULL" ELSE "NOT NULL",
         default |-> IF HasDefault(fields[i]) THEN "DEFAULT ?" ELSE ""]],
     values |-> Defaults(fields)]

\* one CONSTRAINT ... FOREIGN KEY clause per column with a foreignKey
_prepareConstraints(databaseType, table, fields) ==
    LET keyed == SelectSeq(fields, LAMBDA field : "foreignKey" \in DOMAIN field)
    IN  [i \in DOMAIN keyed |->
            [key_name |-> <<"fk", table, keyed[i].name,
                            keyed[i].foreignKey.table, keyed[i].foreignKey.column>>,
             column |-> escapeId(databaseType, keyed[i].name),
             references |-> escapeId(databaseType, keyed[i].foreignKey.table),
             referenced |-> escapeId(databaseType, keyed[i].foreignKey.column),
             onDelete |-> IF "onDelete" \in DOMAIN keyed[i].foreignKey
                          THEN keyed[i].foreignKey.onDelete ELSE "",
             onUpdate |-> IF "onUpdate" \in DOMAIN keyed[i].foreignKey
                          THEN keyed[i].foreignKey.onUpdate ELSE ""]]

\* the types CREATE INDEX is written with IF NOT EXISTS for
can_if_not_existsAnywhere(databaseType) == TRUE
can_if_not_exists(databaseType) == databaseType # "MYSQL"

\* `CREATE <type> INDEX<if_not_exists> <type>_<table>_<fields> ON <table>
\* (<fields>)`; the statement has no values
_prepareCreateIndex(databaseType, table, fields, type) ==
    [query |->
        [verb |-> "CREATE",
         type |-> type,
         object |-> "INDEX",
         if_not_exists |-> IF can_if_not_exists(databaseType)
                           THEN "IF NOT EXISTS" ELSE "",
         name |-> <<toLowerCase(type), table>> \o fields,
         table |-> escapeId(databaseType, table),
         fields |-> [i \in DOMAIN fields |-> escapeId(databaseType, fields[i])]],
     noError |-> ~can_if_not_exists(databaseType)]

\* column.unique === true
IsUniqueUnlessAbsent(column) == "unique" \in DOMAIN column
IsUnique(column) == "unique" \in DOMAIN column /\ column.unique = TRUE

_prepareCreateIndexes(databaseType, table, fields, type) ==
    LET unique == SelectSeq(fields, LAMBDA column : IsUnique(column))
    IN  [i \in DOMAIN unique |->
            _prepareCreateIndex(databaseType, table, <<unique[i].name>>, type)]

\* `, PRIMARY KEY (<primaryKey>)`, or nothing for an empty primaryKey
primary_keyAlways(databaseType, primaryKey) ==
    [clause |-> "PRIMARY KEY",
     columns |-> [i \in DOMAIN primaryKey |-> escapeId(databaseType, primaryKey[i])]]
primary_key(databaseType, primaryKey) ==
    IF Len(primaryKey) # 0
    THEN [clause |-> "PRIMARY KEY",
          columns |-> [i \in DOMAIN primaryKey |-> escapeId(databaseType, primaryKey[i])]]
    ELSE [clause |-> "", columns |-> <<>>]

\* the CREATE TABLE statement with the default values as its parameters,
\* then the unique indexes
_prepareCreateTable(databaseType, table, columns, primaryKey, tableOptions) ==
    LET prepared == _prepareColumns(databaseType, columns)
    IN  << [query |->
               [verb |-> "CREATE TABLE IF NOT EXISTS",
                table |-> escapeId(databaseType, table),
                fields |-> prepared.columns,
                primary_key |-> primary_key(databaseType, primaryKey),
                constraints |-> _prepareConstraints(databaseType, table, columns),
                tableOptions |-> tableOptions],
            values |-> prepared.values] >>
        \o _prepareCreateIndexes(databaseType, table, columns, "UNIQUE")

\* the parameters a statement is executed with: query.values ?? []
Parameters(q) == IF "values" \in DOMAIN q THEN q.values ELSE <<>>

\* query.noError, undefined when the statement does not set it
NoErrorFlag(q) == "noError" \in DOMAIN q /\ q.noError

prepareCreateIndex(table, fields, type) ==
    <<_prepareCreateIndex(synType, table, fields, type)>>

\* this.tableOptions: the MySQL class passes its ENGINE clause to the
\* constructor, the others leave the default ''
tableOptions ==
    IF synType \in {"MYSQL", "MARIADB"}
    THEN "ENGINE=InnoDB PACK_KEYS=1 ROW_FORMAT=COMPRESSED" ELSE ""

prepareCreateTable(name, fields, primaryKey) ==
    _prepareCreateTable(synType, name, fields, primaryKey, tableOptions)

\* the statement of dropTable for one table
DropStatementPlain(databaseType, table) ==
    [verb |-> "DROP TABLE", table |-> escapeId(databaseType, table)]
DropStatement(databaseType, table) ==
    [verb |-> "DROP TABLE IF EXISTS", table |-> escapeId(databaseType, table)]

\* dropTable(tables) up to `return this.transaction(queries)`: a name is
\* wrapped into a list, and every table gets one statement
DropQueries(tables) ==
    [i \in DOMAIN tables |-> [query |-> DropStatement(synType, tables[i])]]

(***************************************************************************)
(* The server side of the createTable tests: the tables and indexes that   *)
(* exist, and what CREATE TABLE, CREATE INDEX and DROP TABLE do to them    *)
(***************************************************************************)
TableObject(name) == [kind |-> "table", name |-> <<name>>, table |-> name]
IndexObject(name, table) == [kind |-> "index", name |-> name, table |-> table]

\* listTables(): the names of the tables that exist
listTables == {o.table : o \in {c \in dbCatalog : c.kind = "table"}}

\* MySQL has no CREATE INDEX IF NOT EXISTS; MariaDB, Postgres and SQLite do
ForbidsIfNotExists(databaseType) == databaseType = "MYSQL"

Refused(catalog, rows) == [ok |-> FALSE, catalog |-> catalog, table |-> rows]
Carried(catalog, rows) == [ok |-> TRUE, catalog |-> catalog, table |-> rows]

\* what one statement of createTable, createIndex or dropTable does
ApplyDdl(databaseType, catalog, rows, q) ==
    LET text == q.query
        name == text.table.id
        exists == TableObject(name) \in catalog
        kept == IF name = TableName THEN {} ELSE rows
    IN  CASE text.verb = "CREATE TABLE IF NOT EXISTS" ->
                 IF exists THEN Carried(catalog, rows)
                 ELSE Carried(catalog \cup {TableObject(name)}, kept)
          [] text.verb = "CREATE" ->
                 IF text.if_not_exists # "" /\ ForbidsIfNotExists(databaseType)
                 THEN Refused(catalog, rows)
                 ELSE IF ~exists THEN Refused(catalog, rows)
                 ELSE IF IndexObject(text.name, name) \in catalog
                 THEN IF text.if_not_exists # ""
                      THEN Carried(catalog, rows)
                      ELSE Refused(catalog, rows)
                 ELSE Carried(catalog \cup {IndexObject(text.name, name)}, rows)
          [] text.verb = "DROP TABLE IF EXISTS" ->
                 Carried({o \in catalog : o.table # name},
                          IF exists THEN kept ELSE rows)
          [] text.verb = "DROP TABLE" ->
                 IF exists
                 THEN Carried({o \in catalog : o.table # name}, kept)
                 ELSE Refused(catalog, rows)
          [] OTHER -> Refused(catalog, rows)

(***************************************************************************)
(* Calls of the four public methods                                        *)
(***************************************************************************)
PrepareMultiInsert ==
    /\ synPc = "start"
    /\ synOp' = "prepareMultiInsert"
    /\ synPrepared' = prepareMultiInsert(TableName, synColumns, synValues)
    /\ synPc' = IF Thrown(synPrepared') THEN "invalid" ELSE "done"
    /\ UNCHANGED <<synRev, synType, synColumns, synPrimaryKey, synValues,
                   synUseTx, synIdx, synBackend, dbTable, dbStart,
                   dbCatalog, synCalls>>
    /\ UNCHANGED <<serVars, txVars, useVars, poolVars, tqVars>>

PrepareMultiUpdate ==
    /\ synPc = "start"
    /\ synOp' = "prepareMultiUpdate"
    /\ synPrepared' = prepareMultiUpdate(TableName, synPrimaryKey, synColumns, synValues)
    /\ synPc' = IF Thrown(synPrepared') THEN "invalid" ELSE "done"
    /\ UNCHANGED <<synRev, synType, synColumns, synPrimaryKey, synValues,
                   synUseTx, synIdx, synBackend, dbTable, dbStart,
                   dbCatalog, synCalls>>
    /\ UNCHANGED <<serVars, txVars, useVars, poolVars, tqVars>>

\* _executeMulti up to its first await: the list goes to transaction(), or
\* its first statement to query()
_executeMulti(queries, useTransaction) ==
    /\ synUseTx' = useTransaction
    /\ synPc' = "executing"
    /\ synBackend' = IF useTransaction THEN <<"transaction">> ELSE <<"query">>

MultiInsert(useTransaction) ==
    /\ synPc = "start"
    /\ synOp' = "multiInsert"
    /\ LET queries == prepareMultiInsert(TableName, synColumns, synValues)
       IN  /\ synPrepared' = queries
           /\ IF Thrown(queries)
              THEN synPc' = "invalid" /\ UNCHANGED <<synUseTx, synBackend>>
              ELSE _executeMulti(queries.queries, useTransaction)
    /\ UNCHANGED <<synRev, synType, synColumns, synPrimaryKey, synValues,
                   synIdx, dbTable, dbStart, dbCatalog, synCalls>>
    /\ UNCHANGED <<serVars, txVars, useVars, poolVars, tqVars>>

MultiUpdate(useTransaction) ==
    /\ synPc = "start"
    /\ synOp' = "multiUpdate"
    /\ LET queries == prepareMultiUpdate(TableName, synPrimaryKey, synColumns, synValues)
       IN  /\ synPrepared' = queries
           /\ IF Thrown(queries)
              THEN synPc' = "invalid" /\ UNCHANGED <<synUseTx, synBackend>>
              ELSE _executeMulti(queries.queries, useTransaction)
    /\ UNCHANGED <<synRev, synType, synColumns, synPrimaryKey, synValues,
                   synIdx, dbTable, dbStart, dbCatalog, synCalls>>
    /\ UNCHANGED <<serVars, txVars, useVars, poolVars, tqVars>>

\* the server answers the next statement. A rejected statement ends the
\* call; inside transaction() a ROLLBACK follows, which may or may not undo
\* the statements before it
StatementDone(undone) ==
    /\ synPc = "executing"
    /\ synIdx < Len(synPrepared.queries)
    /\ LET i == synIdx + 1
           r == ApplyStatement(synType, dbTable, synPrepared.queries[i])
       IN  IF r.ok
           THEN /\ dbTable' = r.table
                /\ synIdx' = i
                /\ synPc' = IF i = Len(synPrepared.queries) THEN "done" ELSE "executing"
                /\ synBackend' = IF synUseTx \/ i = Len(synPrepared.queries)
                                 THEN synBackend
                                 ELSE Append(synBackend, "query")
           ELSE /\ dbTable' = IF synUseTx /\ undone THEN dbStart.table ELSE dbTable
                /\ synPc' = "failed"
                /\ UNCHANGED <<synIdx, synBackend>>
    /\ UNCHANGED <<synRev, synType, synColumns, synPrimaryKey, synValues,
                   synOp, synUseTx, synPrepared, dbStart, dbCatalog,
                   synCalls>>
    /\ UNCHANGED <<serVars, txVars, useVars, poolVars, tqVars>>

\* the metadata an adapter builds for an executed INSERT, from the number
\* of rows the driver reports (taken as one per VALUES group): changes on
\* SQLite, rowsAffected on LibSQL, rowCount on Postgres, affectedRows on
\* MySQL, whose changedRows counts the rows of UPDATE statements only
MetaData(databaseType, q) ==
    LET n == Len(q.query.groups)
    IN  [changedRows |-> IF databaseType \in {"MYSQL", "MARIADB"} THEN 0 ELSE n,
         affectedRows |-> n,
         length |-> 0]

\* the metadata of the statements that were executed, in order
ExecutedMetaData ==
    [i \in 1..synIdx |-> MetaData(synType, synPrepared.queries[i])]

RECURSIVE Reduce(_)
\* Array.prototype.reduce((previous, current) => previous + current) of
\* an array that is not empty
ReduceLast(ns) == ns[Len(ns)]
Reduce(ns) ==
    IF Len(ns) = 1 THEN ns[1]
    ELSE Reduce(SubSeq(ns, 1, Len(ns) - 1)) + ns[Len(ns)]

\* what _executeMulti returns: no rows, and the metadata of the results
\* added up, by reduce without initial value after transaction() and by
\* counters that start at 0 around query()
Aggregated(useTransaction, results) ==
    LET field(f) == [i \in DOMAIN results |-> results[i][f]]
    IN  IF useTransaction /\ results = <<>>
        THEN [error |-> "TypeError", rows |-> <<>>,
              meta |-> [changedRows |-> 0, affectedRows |-> 0, length |-> 0]]
        ELSE IF useTransaction
        THEN [error |-> "", rows |-> <<>>,
              meta |-> [changedRows |-> Reduce(field("changedRows")),
                        affectedRows |-> Reduce(field("affectedRows")),
                        length |-> Reduce(field("length"))]]
        ELSE [error |-> "", rows |-> <<>>,
              meta |-> [changedRows |-> Sum(field("changedRows")),
                        affectedRows |-> Sum(field("affectedRows")),
                        length |-> Sum(field("length"))]]

\* column lists: the table's columns, each at most once, in any order
ColumnLists ==
    {s \in UNION {[1..n -> Range(TableColumns)] : n \in 0..Len(TableColumns)} :
        \A i, j \in DOMAIN s : s[i] = s[j] => i = j}

ColumnValues == {1, 2}
\* rows that fit the table, and one row of every other length
ValueRows ==
    [DOMAIN TableColumns -> ColumnValues] \cup
    {[i \in 1..n |-> 1] : n \in (0..(Len(TableColumns) + 1)) \ {Len(TableColumns)}}
RowLists == UNION {[1..n -> ValueRows] : n \in 0..MaxRows}

SynInit ==
    /\ synRev \in Revisions
    /\ synType \in InstanceTypes(synRev)
    /\ synColumns \in ColumnLists
    /\ synPrimaryKey \in ColumnLists
    /\ synValues \in RowLists
    /\ synOp = "none"
    /\ synUseTx = TRUE
    /\ synPc = "start"
    /\ synPrepared = Return(<<>>)
    /\ synIdx = 0
    /\ synBackend = <<>>
    /\ dbTable \in {{}, TableAtStart}
    /\ dbCatalog = {TableObject(TableName)}
    /\ dbStart = [table |-> dbTable, catalog |-> dbCatalog]
    /\ synCalls = 0

SynIdle ==
    /\ synRev = "current"
    /\ synType = "SQLITE"
    /\ synColumns = <<>>
    /\ synPrimaryKey = <<>>
    /\ synValues = <<>>
    /\ synOp = "none"
    /\ synUseTx = TRUE
    /\ synPc = "idle"
    /\ synPrepared = Return(<<>>)
    /\ synIdx = 0
    /\ synBackend = <<>>
    /\ dbTable = TableAtStart
    /\ dbCatalog = {TableObject(TableName)}
    /\ dbStart = [table |-> dbTable, catalog |-> dbCatalog]
    /\ synCalls = 0

SynNext ==
    \/ PrepareMultiInsert
    \/ PrepareMultiUpdate
    \/ \E useTransaction \in BOOLEAN : MultiInsert(useTransaction)
    \/ \E useTransaction \in BOOLEAN : MultiUpdate(useTransaction)
    \/ \E undone \in BOOLEAN : StatementDone(undone)


(***************************************************************************)
(* Calls of prepareCreateTable, prepareCreateIndex, createTable,           *)
(* createIndex and dropTable                                               *)
(***************************************************************************)
\* the adapters of the current revision: MySQL (also constructed as
\* MariaDB) and SQLite
CurrentAdapters == {"MYSQL", "MARIADB", "SQLITE"}

\* the handle is fresh, or its last createTable / createIndex / dropTable
\* call has returned or thrown
Quiescent == synPc = "start" \/ (synCalls > 0 /\ synPc \in {"done", "failed"})

PrepareCreateTable(fields, primaryKey) ==
    /\ synPc = "start"
    /\ synRev = "current"
    /\ synOp' = "prepareCreateTable"
    /\ synColumns' = fields
    /\ synPrimaryKey' = primaryKey
    /\ synPrepared' = Return(prepareCreateTable(TableName, fields, primaryKey))
    /\ synPc' = "done"
    /\ UNCHANGED <<synRev, synType, synValues, synUseTx, synIdx, synBackend,
                   dbTable, dbStart, dbCatalog, synCalls>>
    /\ UNCHANGED <<serVars, txVars, useVars, poolVars, tqVars>>

PrepareCreateIndex(fields, type) ==
    /\ synPc = "start"
    /\ synRev = "current"
    /\ synOp' = "prepareCreateIndex"
    /\ synColumns' = fields
    /\ synPrepared' = Return(prepareCreateIndex(TableName, fields, type))
    /\ synPc' = "done"
    /\ UNCHANGED <<synRev, synType, synPrimaryKey, synValues, synUseTx,
                   synIdx, synBackend, dbTable, dbStart, dbCatalog, synCalls>>
    /\ UNCHANGED <<serVars, txVars, useVars, poolVars, tqVars>>

CreateTable(fields, primaryKey, useTransaction) ==
    /\ Quiescent
    /\ synCalls < MaxDdl
    /\ synRev = "current"
    /\ synType \in CurrentAdapters
    /\ synOp' = "createTable"
    /\ synColumns' = fields
    /\ synPrimaryKey' = primaryKey
    /\ LET queries == prepareCreateTable(TableName, fields, primaryKey)
       IN  /\ synPrepared' = Return(queries)
           /\ _executeMulti(queries, useTransaction)
    /\ synIdx' = 0
    /\ dbStart' = [table |-> dbTable, catalog |-> dbCatalog]
    /\ synCalls' = synCalls + 1
    /\ UNCHANGED <<synRev, synType, synValues, dbTable, dbCatalog>>
    /\ UNCHANGED <<serVars, txVars, useVars, poolVars, tqVars>>

CreateIndex(fields, type, useTransaction) ==
    /\ Quiescent
    /\ synCalls < MaxDdl
    /\ synRev = "current"
    /\ synType \in CurrentAdapters
    /\ synOp' = "createIndex"
    /\ synColumns' = fields
    /\ LET queries == prepareCreateIndex(TableName, fields, type)
       IN  /\ synPrepared' = Return(queries)
           /\ _executeMulti(queries, useTransaction)
    /\ synIdx' = 0
    /\ dbStart' = [table |-> dbTable, catalog |-> dbCatalog]
    /\ synCalls' = synCalls + 1
    /\ UNCHANGED <<synRev, synType, synPrimaryKey, synValues, dbTable,
                   dbCatalog>>
    /\ UNCHANGED <<serVars, txVars, useVars, poolVars, tqVars>>

\* dropTable(table) up to the first await of transaction()
DropTable ==
    /\ Quiescent
    /\ synCalls < MaxDdl
    /\ synOp' = "dropTable"
    /\ synPrepared' = Return(DropQueries(<<TableName>>))
    /\ synUseTx' = TRUE
    /\ synPc' = "executing"
    /\ synBackend' = <<"transaction">>
    /\ synIdx' = 0
    /\ dbStart' = [table |-> dbTable, catalog |-> dbCatalog]
    /\ synCalls' = synCalls + 1
    /\ UNCHANGED <<synRev, synType, synColumns, synPrimaryKey, synValues,
                   dbTable, dbCatalog>>
    /\ UNCHANGED <<serVars, txVars, useVars, poolVars, tqVars>>

\* the server answers the next statement. transaction() swallows the
\* failure of a statement marked noError, query() does not; any other
\* failure ends the call, and the ROLLBACK of transaction() may or may not
\* undo the statements before it
DdlStatementDone(undone) ==
    /\ synPc = "executing"
    /\ synIdx < Len(synPrepared.queries)
    /\ LET i == synIdx + 1
           q == synPrepared.queries[i]
           r == ApplyDdl(synType, dbCatalog, dbTable, q)
       IN  IF r.ok \/ (synUseTx /\ NoErrorFlag(q))
           THEN /\ dbCatalog' = r.catalog
                /\ dbTable' = r.table
                /\ synIdx' = i
                /\ synPc' = IF i = Len(synPrepared.queries) THEN "done" ELSE "executing"
                /\ synBackend' = IF synUseTx \/ i = Len(synPrepared.queries)
                                 THEN synBackend
                                 ELSE Append(synBackend, "query")
           ELSE /\ dbCatalog' = IF synUseTx /\ undone THEN dbStart.catalog ELSE dbCatalog
                /\ dbTable' = IF synUseTx /\ undone THEN dbStart.table ELSE dbTable
                /\ synPc' = "failed"
                /\ UNCHANGED <<synIdx, synBackend>>
    /\ UNCHANGED <<synRev, synType, synColumns, synPrimaryKey, synValues,
                   synOp, synUseTx, synPrepared, dbStart, synCalls>>
    /\ UNCHANGED <<serVars, txVars, useVars, poolVars, tqVars>>

\* Database.Table.Column values: name and type, and any of unique,
\* default, nullable and foreignKey
Optional(field, values) == {<<>>} \cup {field :> v : v \in values}
ColumnsNamed(name, default) ==
    {[name |-> name, type |-> "integer"] @@ u @@ d @@ n @@ f :
        u \in Optional("unique", BOOLEAN),
        d \in Optional("default", {default}),
        n \in Optional("nullable", {TRUE}),
        f \in Optional("foreignKey", {[table |-> "other", column |-> "id"]})}
\* the first columns of the table, each with any of its options
FieldLists ==
    UNION {{fields \in [1..n -> UNION {ColumnsNamed(TableColumns[i], i) : i \in 1..n}] :
               \A i \in 1..n : fields[i].name = TableColumns[i]} :
           n \in 0..Len(TableColumns)}
\* the tables of the createTable tests: both columns, any of them unique,
\* with the first column or none as the primary key
TestedFieldLists ==
    {fields \in FieldLists :
        /\ Len(fields) = Len(TableColumns)
        /\ \A i \in DOMAIN fields : DOMAIN fields[i] \subseteq {"name", "type", "unique"}}
TestedKeys == {<<>>, TablePrimaryKey}
\* the column lists an index is created on
IndexedLists == ColumnLists \ {<<>>}

DdlInit ==
    /\ synRev \in Revisions
    /\ synType \in InstanceTypes(synRev)
    /\ synColumns = <<>>
    /\ synPrimaryKey = <<>>
    /\ synValues = <<>>
    /\ synOp = "none"
    /\ synUseTx = TRUE
    /\ synPc = "start"
    /\ synPrepared = Return(<<>>)
    /\ synIdx = 0
    /\ synBackend = <<>>
    /\ dbCatalog \in {{}, {TableObject(TableName)}}
    /\ dbTable = IF dbCatalog = {} THEN {} ELSE TableAtStart
    /\ dbStart = [table |-> dbTable, catalog |-> dbCatalog]
    /\ synCalls = 0

DdlNext ==
    \/ \E fields \in FieldLists : \E primaryKey \in ColumnLists :
           PrepareCreateTable(fields, primaryKey)
    \/ \E fields \in ColumnLists : \E type \in IndexType :
           PrepareCreateIndex(fields, type)
    \/ \E fields \in TestedFieldLists : \E primaryKey \in TestedKeys :
           \E useTransaction \in BOOLEAN :
               CreateTable(fields, primaryKey, useTransaction)
    \/ \E fields \in IndexedLists : \E type \in IndexType :
           \E useTransaction \in BOOLEAN :
               CreateIndex(fields, type, useTransaction)
    \/ DropTable
    \/ \E undone \in BOOLEAN : DdlStatementDone(undone)

(***************************************************************************)
(* use(target) of the engine adapters                                      *)
(***************************************************************************)
\* databases, files or urls a handle can be pointed at
Targets == {"a", "b"}
\* config.user of the pooled engines; '' stands for none
Users == {"", "u"}

\* path.resolve(filename) of the SQLite constructor: the handle keeps the
\* absolute path of the file
resolve(filename) == [name |-> filename, absolute |-> TRUE]
\* a database name or url is kept as given
AsGiven(target) == [name |-> target, absolute |-> FALSE]

\* the constructors: the handle keeps the config object it is given; the
\* SQLite constructor replaces config.filename by its absolute path
Constructor(class, config) ==
    [class |-> class,
     config |-> IF class = "SQLITE"
                THEN [config EXCEPT !.target = resolve(config.target.name)]
                ELSE config]

NoCall ==
    [receiver |-> 0, before |-> [target |-> AsGiven("a"), user |-> ""],
     target |-> "a", returned |-> 0, raised |-> FALSE]

EngineHandles == DOMAIN useHandles

\* `{...this.config, <target>}`: a copy of the config with the target
\* replaced
Spread(config, target) == [config EXCEPT !.target = AsGiven(target)]

\* MySQL.use (the class also serves MariaDB): USE <database> is sent
\* through the pool, then `this.config.database = database; return this`
MySQLUse(h, database, r) ==
    /\ h \in EngineHandles
    /\ useHandles[h].class \in MySQLFamily
    /\ r \in {"ok", "err"}
    /\ IF r = "ok"
       THEN /\ useHandles' = [useHandles EXCEPT ![h].config.target = AsGiven(database)]
            /\ useCall' = [receiver |-> h, before |-> useHandles[h].config,
                           target |-> database, returned |-> h, raised |-> FALSE]
       ELSE /\ useCall' = [receiver |-> h, before |-> useHandles[h].config,
                           target |-> database, returned |-> 0, raised |-> TRUE]
            /\ UNCHANGED useHandles
    /\ UNCHANGED <<serVars, txVars, synVars, poolVars, tqVars>>

\* Postgres.use(database, user?, password?)
PostgresUse(h, database, user) ==
    /\ h \in EngineHandles
    /\ useHandles[h].class = "POSTGRES"
    /\ Len(useHandles) < MaxHandles
    /\ useHandles' = Append(useHandles, Constructor("POSTGRES",
           [Spread(useHandles[h].config, database) EXCEPT
               !.user = IF user # "" THEN user ELSE useHandles[h].config.user]))
    /\ useCall' = [receiver |-> h, before |-> useHandles[h].config,
                   target |-> database, returned |-> Len(useHandles) + 1,
                   raised |-> FALSE]
    /\ UNCHANGED <<serVars, txVars, synVars, poolVars, tqVars>>

\* SQLite.use(filename)
SQLiteUse(h, filename) ==
    /\ h \in EngineHandles
    /\ useHandles[h].class = "SQLITE"
    /\ Len(useHandles) < MaxHandles
    /\ useHandles' = Append(useHandles,
           Constructor("SQLITE", Spread(useHandles[h].config, filename)))
    /\ useCall' = [receiver |-> h, before |-> useHandles[h].config,
                   target |-> filename, returned |-> Len(useHandles) + 1,
                   raised |-> FALSE]
    /\ UNCHANGED <<serVars, txVars, synVars, poolVars, tqVars>>

\* LibSQL.use(path)
LibSQLUse(h, path) ==
    /\ h \in EngineHandles
    /\ useHandles[h].class = "LIBSQL"
    /\ Len(useHandles) < MaxHandles
    /\ useHandles' = Append(useHandles,
           Constructor("LIBSQL", Spread(useHandles[h].config, path)))
    /\ useCall' = [receiver |-> h, before |-> useHandles[h].config,
                   target |-> path, returned |-> Len(useHandles) + 1,
                   raised |-> FALSE]
    /\ UNCHANGED <<serVars, txVars, synVars, poolVars, tqVars>>

\* one handle, constructed by the application
UseInit ==
    /\ \E class \in Engines : \E target \in Targets : \E user \in Users :
           useHandles = <<Constructor(class, [target |-> AsGiven(target), user |-> user])>>
    /\ useCall = NoCall

UseIdle ==
    /\ useHandles = <<>>
    /\ useCall = NoCall

UseNext ==
    \/ \E h \in 1..MaxHandles : \E database \in Targets : \E r \in {"ok", "err"} :
           MySQLUse(h, database, r)
    \/ \E h \in 1..MaxHandles : \E database \in Targets : \E user \in Users :
           PostgresUse(h, database, user)
    \/ \E h \in 1..MaxHandles : \E filename \in Targets : SQLiteUse(h, filename)
    \/ \E h \in 1..MaxHandles : \E path \in Targets : LibSQLUse(h, path)

(***************************************************************************)
(* The connection pool of the pooled engines, and transaction() and        *)
(* query() calls that run on it concurrently                               *)
(***************************************************************************)
PoolCalls == 1..MaxTx
Conns == 1..MaxConns
NoConn == 0

\* pool.connect() / pool.getConnection(): is there a connection to hand
\* out, idle or still to be created
Available == poolIdle # <<>> \/ poolMade < MaxConns

\* the connection that is handed out: an idle one (pg takes the one
\* released last, mysql the one released first), else a new one
Take ==
    IF poolIdle = <<>> THEN poolMade + 1
    ELSE IF poolEngine = "POSTGRES" THEN poolIdle[Len(poolIdle)]
    ELSE Head(poolIdle)

\* the pool after Take
Taken ==
    IF poolIdle = <<>> THEN <<poolIdle, poolMade + 1>>
    ELSE IF poolEngine = "POSTGRES"
    THEN <<SubSeq(poolIdle, 1, Len(poolIdle) - 1), poolMade>>
    ELSE <<Tail(poolIdle), poolMade>>

IsIdle(idle, conn) == \E j \in 1..Len(idle) : idle[j] = conn

\* connection.release(): the connection goes back to the idle list; the
\* driver throws for a connection that is already there
Release(idle, conn) == IF IsIdle(idle, conn) THEN idle ELSE Append(idle, conn)

\* `if (!(connection instanceof Pool)) { connection.release(); }` at the
\* end of Postgres._query; MySQL._query has no such statement
ReleasedByQuery(k) == poolEngine = "POSTGRES" /\ pcKind[k] = "transaction"

\* connection(): transaction() takes a connection from the pool, outside
\* the try; the promise is pending while the pool has none to give
PoolConnect(k, r) ==
    /\ pcKind[k] = "transaction"
    /\ pcPc[k] = "start"
    /\ r \in {"ok", "err"}
    /\ IF r = "ok"
       THEN /\ Available
            /\ pcConn' = [pcConn EXCEPT ![k] = Take]
            /\ poolIdle' = Taken[1]
            /\ poolMade' = Taken[2]
            /\ pcPc' = [pcPc EXCEPT ![k] = "begin"]
       ELSE /\ pcPc' = [pcPc EXCEPT ![k] = "failed"]
            /\ UNCHANGED <<pcConn, poolIdle, poolMade>>
    /\ UNCHANGED <<poolEngine, pcKind, pcQueries, pcIdx>>
    /\ UNCHANGED <<serVars, txVars, synVars, useVars, tqVars>>

\* beginTransaction(connection), inside the try
PoolBegin(k, r) ==
    /\ pcPc[k] = "begin"
    /\ r \in {"ok", "err"}
    /\ pcPc' = [pcPc EXCEPT ![k] = IF r = "ok" THEN "stmt" ELSE "rollback"]
    /\ pcIdx' = [pcIdx EXCEPT ![k] = IF r = "ok" THEN 1 ELSE @]
    /\ UNCHANGED <<poolEngine, poolIdle, poolMade, pcKind, pcQueries, pcConn>>
    /\ UNCHANGED <<serVars, txVars, synVars, useVars, tqVars>>

\* one turn of the for-loop: _query(query.query, query.values, connection)
\* is awaited; a failure is swallowed if the statement has noError set and
\* goes to the outer catch otherwise
PoolStmt(k, r) ==
    /\ pcKind[k] = "transaction"
    /\ pcPc[k] = "stmt"
    /\ pcIdx[k] <= Len(pcQueries[k])
    /\ r \in {"ok", "err"}
    /\ LET rel == r = "ok" /\ ReleasedByQuery(k)
           eff == IF rel /\ IsIdle(poolIdle, pcConn[k]) THEN "err" ELSE r
       IN
        /\ poolIdle' = IF rel THEN Release(poolIdle, pcConn[k]) ELSE poolIdle
        /\ IF eff = "ok" \/ pcQueries[k][pcIdx[k]]
           THEN /\ pcIdx' = [pcIdx EXCEPT ![k] = @ + 1]
                /\ UNCHANGED pcPc
           ELSE /\ pcPc' = [pcPc EXCEPT ![k] = "rollback"]
                /\ UNCHANGED pcIdx
    /\ UNCHANGED <<poolEngine, poolMade, pcKind, pcQueries, pcConn>>
    /\ UNCHANGED <<serVars, txVars, synVars, useVars, tqVars>>

\* the finally block: MySQL calls connection.release(), Postgres.release
\* swallows the error of a client that has already been released
PoolFinally(k) == Release(poolIdle, pcConn[k])

\* the for-loop is over: commitTransaction, return results, finally
PoolCommit(k, r) ==
    /\ pcKind[k] = "transaction"
    /\ pcPc[k] = "stmt"
    /\ pcIdx[k] > Len(pcQueries[k])
    /\ r \in {"ok", "err"}
    /\ IF r = "ok"
       THEN /\ pcPc' = [pcPc EXCEPT ![k] = "done"]
            /\ poolIdle' = PoolFinally(k)
            /\ pcConn' = [pcConn EXCEPT ![k] = NoConn]
       ELSE /\ pcPc' = [pcPc EXCEPT ![k] = "rollback"]
            /\ UNCHANGED <<poolIdle, pcConn>>
    /\ UNCHANGED <<poolEngine, poolMade, pcKind, pcQueries, pcIdx>>
    /\ UNCHANGED <<serVars, txVars, synVars, useVars, tqVars>>

\* the outer catch: rollbackTransaction is awaited, the error is thrown,
\* finally
PoolRollback(k, r) ==
    /\ pcPc[k] = "rollback"
    /\ r \in {"ok", "err"}
    /\ pcPc' = [pcPc EXCEPT ![k] = "failed"]
    /\ poolIdle' = PoolFinally(k)
    /\ pcConn' = [pcConn EXCEPT ![k] = NoConn]
    /\ UNCHANGED <<poolEngine, poolMade, pcKind, pcQueries, pcIdx>>
    /\ UNCHANGED <<serVars, txVars, synVars, useVars, tqVars>>

\* query(): _query with connection = this.pool; the pool takes a
\* connection for the statement
PoolQuery(k) ==
    /\ pcKind[k] = "query"
    /\ pcPc[k] = "start"
    /\ Available
    /\ pcConn' = [pcConn EXCEPT ![k] = Take]
    /\ poolIdle' = Taken[1]
    /\ poolMade' = Taken[2]
    /\ pcPc' = [pcPc EXCEPT ![k] = "stmt"]
    /\ UNCHANGED <<poolEngine, pcKind, pcQueries, pcIdx>>
    /\ UNCHANGED <<serVars, txVars, synVars, useVars, tqVars>>

\* the statement of a query() has completed: the pool takes the
\* connection back and the promise of query() is settled
PoolQueryDone(k, r) ==
    /\ pcKind[k] = "query"
    /\ pcPc[k] = "stmt"
    /\ r \in {"ok", "err"}
    /\ poolIdle' = Release(poolIdle, pcConn[k])
    /\ pcConn' = [pcConn EXCEPT ![k] = NoConn]
    /\ pcPc' = [pcPc EXCEPT ![k] = IF r = "ok" THEN "done" ELSE "failed"]
    /\ UNCHANGED <<poolEngine, poolMade, pcKind, pcQueries, pcIdx>>
    /\ UNCHANGED <<serVars, txVars, synVars, useVars, tqVars>>

\* the statement lists of the concurrent transactions: one statement or
\* more, all of them with noError or none
PoolQueryLists ==
    {[i \in 1..n |-> flag] : n \in 1..MaxStmts, flag \in BOOLEAN}

\* the calls made on the handle: a transaction(queries), and beside it
\* further transaction(queries) calls with the same list or
\* query(statement) calls
PoolInit ==
    /\ poolEngine \in Pooled
    /\ poolIdle = <<>>
    /\ poolMade = 0
    /\ pcKind \in [PoolCalls -> {"transaction", "query"}]
    /\ pcKind[1] = "transaction"
    /\ \E queries \in PoolQueryLists :
        pcQueries = [k \in PoolCalls |->
                        IF pcKind[k] = "query" THEN <<FALSE>> ELSE queries]
    /\ pcPc = [k \in PoolCalls |-> "start"]
    /\ pcIdx = [k \in PoolCalls |-> 0]
    /\ pcConn = [k \in PoolCalls |-> NoConn]

PoolIdle ==
    /\ poolEngine = "none"
    /\ poolIdle = <<>>
    /\ poolMade = 0
    /\ pcKind = [k \in PoolCalls |-> "none"]
    /\ pcQueries = [k \in PoolCalls |-> <<>>]
    /\ pcPc = [k \in PoolCalls |-> "idle"]
    /\ pcIdx = [k \in PoolCalls |-> 0]
    /\ pcConn = [k \in PoolCalls |-> NoConn]

PoolNext ==
    \/ \E k \in PoolCalls, r \in {"ok", "err"} : PoolConnect(k, r)
    \/ \E k \in PoolCalls, r \in {"ok", "err"} : PoolBegin(k, r)
    \/ \E k \in PoolCalls, r \in {"ok", "err"} : PoolStmt(k, r)
    \/ \E k \in PoolCalls, r \in {"ok", "err"} : PoolCommit(k, r)
    \/ \E k \in PoolCalls, r \in {"ok", "err"} : PoolRollback(k, r)
    \/ \E k \in PoolCalls : PoolQuery(k)
    \/ \E k \in PoolCalls, r \in {"ok", "err"} : PoolQueryDone(k, r)

(***************************************************************************)
(* Postgres.transformQuery: '?' placeholders become $1, $2, ...            *)
(***************************************************************************)
\* characters of a statement text: the placeholder, a letter, and the two
\* characters the replacement is written with
Alphabet == {"?", "a", "$", "1"}

\* String.prototype.includes
includes(query, char) == \E i \in DOMAIN query : query[i] = char

\* index of the first match of /\?/
indexOf(query, char) ==
    CHOOSE i \in DOMAIN query :
        query[i] = char /\ \A j \in 1..(i - 1) : query[j] # char

\* query.replace(/\?/, replacement): the first match is replaced; the
\* pattern has no capture group, so `$` followed by digits in the
\* replacement stands for itself
replace(query, replacement) ==
    IF ~includes(query, "?") THEN query
    ELSE LET i == indexOf(query, "?")
         IN  SubSeq(query, 1, i - 1) \o replacement
                \o SubSeq(query, i + 1, Len(query))

\* a replacement that would not use the counter
TemplateFirst(counter) == <<"$", ToString(1)>>

\* the template literal `$${counter++}`: a dollar sign and the number
Template(counter) == <<"$", ToString(counter)>>

\* one turn of `while (query.includes('?'))`
TransformStep ==
    /\ tqPc = "while"
    /\ includes(tqQuery, "?")
    /\ tqQuery' = replace(tqQuery, Template(tqCounter))
    /\ tqCounter' = tqCounter + 1
    /\ UNCHANGED <<tqInput, tqPc>>
    /\ UNCHANGED <<serVars, txVars, synVars, useVars, poolVars>>

\* the loop condition is false: `return query`
TransformReturn ==
    /\ tqPc = "while"
    /\ ~includes(tqQuery, "?")
    /\ tqPc' = "returned"
    /\ UNCHANGED <<tqInput, tqQuery, tqCounter>>
    /\ UNCHANGED <<serVars, txVars, synVars, useVars, poolVars>>

\* the statement texts transformQuery is called with
Texts == UNION {[1..n -> Alphabet] : n \in 0..MaxLen}

\* `let counter = 1`
TqInit ==
    /\ tqInput \in Texts
    /\ tqQuery = tqInput
    /\ tqCounter = 1
    /\ tqPc = "while"

TqIdle ==
    /\ tqInput = <<>>
    /\ tqQuery = <<>>
    /\ tqCounter = 1
    /\ tqPc = "idle"

TqNext ==
    \/ TransformStep
    \/ TransformReturn

(***************************************************************************)
(* Specification of the embedded engine                                    *)
(***************************************************************************)
SerInit ==
    /\ registry = [p \in Paths |-> NoInst]
    /\ hdb = [h \in Handles |-> NoInst]
    /\ nInst = 0
    /\ native = [i \in Insts |-> "none"]
    /\ statementQueue = [i \in Insts |-> <<>>]
    /\ stopping = [i \in Insts |-> FALSE]
    /\ loopPc = [i \in Insts |-> "none"]
    /\ trailing = [i \in Insts |-> 0]
    /\ callOp = [c \in Calls |-> "none"]
    /\ callH = [c \in Calls |-> "none"]
    /\ callInst = [c \in Calls |-> NoInst]
    /\ callPc = [c \in Calls |-> "new"]

TxIdle ==
    /\ txEngine = "none"
    /\ txHttp = FALSE
    /\ txQueries = <<>>
    /\ txPc = "idle"
    /\ txIdx = 0
    /\ txLog = <<>>
    /\ txOut = <<>>
    /\ txResults = <<>>
    /\ txPending = NoError
    /\ txRaised = NoError
    /\ txConn = "none"
    /\ txInFlight = {}
    /\ txLost = {}
    /\ txEvents = {}

Init == SerInit /\ TxIdle /\ SynIdle /\ UseIdle /\ PoolIdle /\ TqIdle

\* steps of the event loop on an instance: callbacks and timers
Callbacks ==
    \/ \E c \in Calls, r \in {"ok", "err"} : WalDone(c, r)
    \/ \E c \in Calls, r \in {"ok", "err"}, op \in Ops : FkDone(c, r, op)
    \/ \E i \in Insts : LoopWake(i)
    \/ \E c \in Calls, r \in {"ok", "err"} : EntryDone(c, r)
    \/ \E i \in Insts : TrailingDone(i)
    \/ \E c \in Calls, r \in {"ok", "err"} : PragmaDone(c, r)
    \/ \E c \in Calls : ClosePollWake(c)
    \/ \E c \in Calls, r \in {"ok", "err"} : CloseDone(c, r)

\* the process from its start: nothing is open, the registry is empty
Next ==
    \/ \E c \in Calls, h \in Handles, op \in Ops : CallStart(c, h, op)
    \/ \E c \in Calls : OpenDone(c)
    \/ \E c \in Calls : OpenFail(c)
    \/ Callbacks

Spec == Init /\ [][Next]_vars

\* the state after the first use of h1 has opened the file: the instance
\* is constructed and registered, its loop sleeps, h1 holds it
Running ==
    /\ registry = [p \in Paths |-> 1]
    /\ hdb = [h \in Handles |-> IF h = "h1" THEN 1 ELSE NoInst]
    /\ nInst = 1
    /\ native = [i \in Insts |-> IF i = 1 THEN "open" ELSE "none"]
    /\ statementQueue = [i \in Insts |-> <<>>]
    /\ stopping = [i \in Insts |-> FALSE]
    /\ loopPc = [i \in Insts |-> IF i = 1 THEN "sleep" ELSE "none"]
    /\ trailing = [i \in Insts |-> 0]
    /\ callOp = [c \in Calls |-> "none"]
    /\ callH = [c \in Calls |-> "none"]
    /\ callInst = [c \in Calls |-> NoInst]
    /\ callPc = [c \in Calls |-> "new"]

\* the serializer of the one registered instance, used through both handles
SerNext ==
    \/ \E c \in Calls, h \in Handles, op \in Ops : CallStart(c, h, op)
    \/ Callbacks

SerStart == Running /\ TxIdle /\ SynIdle /\ UseIdle /\ PoolIdle /\ TqIdle

SerSpec == SerStart /\ [][SerNext]_vars

\* callbacks and timers that are due do fire; callers need not call
FairSpec == SerSpec /\ WF_vars(Callbacks)

\* one transaction() call on a handle of any engine
TxStart == SerInit /\ TxInit /\ SynIdle /\ UseIdle /\ PoolIdle /\ TqIdle

TxSpec == TxStart /\ [][TxNext]_vars

\* one call of a bulk method on a handle of any type
SynStart == SerInit /\ TxIdle /\ SynInit /\ UseIdle /\ PoolIdle /\ TqIdle

SynSpec == SynStart /\ [][SynNext]_vars

\* the handle receives calls of the table and index methods
DdlStart == SerInit /\ TxIdle /\ DdlInit /\ UseIdle /\ PoolIdle /\ TqIdle

DdlSpec == DdlStart /\ [][DdlNext]_vars

\* handles of one class, and use() calls on them
UseStart == SerInit /\ TxIdle /\ SynIdle /\ UseInit /\ PoolIdle /\ TqIdle

UseSpec == UseStart /\ [][UseNext]_vars

\* calls that run concurrently on one handle of a pooled engine
PoolStart == SerInit /\ TxIdle /\ SynIdle /\ UseIdle /\ PoolInit /\ TqIdle

PoolSpec == PoolStart /\ [][PoolNext]_vars

\* one call of transformQuery
TqStart == SerInit /\ TxIdle /\ SynIdle /\ UseIdle /\ PoolIdle /\ TqInit

TqSpec == TqStart /\ [][TqNext]_vars

\* the function runs: a turn of the loop that can be taken is taken
TqFairSpec == TqSpec /\ WF_vars(TqNext)

(***************************************************************************)
(* Properties of the embedded-engine serializer (Spec, FairSpec)           *)
(***************************************************************************)
Settled == {"ok", "err"}

\* C1: on one SQLiteInstance at most one queue entry is executing against
\* the sqlite3 handle at any instant, counting the entry between its
\* dequeue and its callback and every transaction entry whose COMMIT or
\* ROLLBACK the handle has not completed.
C1_OneEntryExecuting ==
    \A i \in Insts : Cardinality(Executing(i)) + trailing[i] <= 1

\* C2: all handles of one resolved path obtain the same SQLiteInstance and
\* the native open is performed at most once per path.
C2_OneInstancePerPath ==
    /\ nInst <= Cardinality(Paths)
    /\ \A h, g \in Handles :
        (HandlePath(h) = HandlePath(g) /\ hdb[h] # NoInst /\ hdb[g] # NoInst)
            => hdb[h] = hdb[g]

\* C3: when close() invokes the native close, no entry waits in the queue
\* and no dequeued entry is still executing.
C3_CloseOnlyWhenDrained ==
    [][\A i \in Insts :
        (native[i] = "open" /\ native'[i] = "closing")
            => (statementQueue[i] = <<>> /\ Executing(i) = {})]_vars

\* C4: an entry that was enqueued before close() was called is, once the
\* instance is stopping, eventually dequeued, executed and called back.
C4_StoppingDrains ==
    \A c \in Calls :
        []((callPc[c] = "queued" /\ ~stopping[callInst[c]])
            => []((callPc[c] = "queued" /\ stopping[callInst[c]])
                    => <>(callPc[c] \in Settled)))

\* C5: once close() has been called the instance eventually is closed: the
\* queue is empty, every close() has invoked the native close and the
\* polling loop has exited.
C5_CloseCompletes ==
    \A i \in Insts :
        stopping[i] ~>
            /\ statementQueue[i] = <<>>
            /\ loopPc[i] = "exited"
            /\ \A c \in Calls : callInst[c] = i => callPc[c] # "poll"

\* C6: a call issued on a handle whose instance has completed close() is
\* rejected at once: it neither enqueues an entry nor hands a statement to
\* the closed sqlite3 handle.
C6_RejectedAfterClose ==
    [][\A c \in Calls :
        (/\ callPc[c] = "new"
         /\ callPc'[c] # "new"
         /\ callInst'[c] # NoInst)
            => native[callInst'[c]] # "closed"]_vars

\* C7: once close() has been called on an instance (stopping), no call
\* appends an entry to its statement queue.
C7_NoEnqueueWhenStopping ==
    [][\A i \in Insts :
        stopping[i] => Len(statementQueue'[i]) <= Len(statementQueue[i])]_vars

Issued(cmd) == \E k \in 1..Len(txLog) : txLog[k] = cmd
Executed(i) == Issued(<<"S", i>>)

\* statement i was executed and its execution was rejected
Failed(i) == i <= Len(txOut) /\ txOut[i] = "err"

\* C9: on the pooled engines and on the embedded engine, if a statement
\* fails and its noError flag is unset, no later statement is executed,
\* ROLLBACK is issued, COMMIT is not, and the statement's error is what
\* transaction() throws.
C9_AbortOnFailure ==
    \A i \in 1..Len(txQueries) :
        (/\ txPc = "done"
         /\ txEngine \in Pooled \cup {"SQLITE"}
         /\ Failed(i)
         /\ ~txQueries[i])
            => /\ \A j \in 1..Len(txQueries) : j > i => ~Executed(j)
               /\ Issued(<<"ROLLBACK", 0>>)
               /\ ~Issued(<<"COMMIT", 0>>)
               /\ txRaised = <<"stmt", i>>

\* every failure of a statement was one its noError flag tolerates
OnlyTolerated == \A k \in 1..Len(txQueries) : Failed(k) => txQueries[k]

\* what C10 says of a finished transaction in which statement i failed
\* with noError set: its error is not thrown; every later statement was
\* executed unless a failure that is not tolerated came before it; and if
\* nothing failed untolerated (no statement, nor COMMIT) the transaction
\* ended with COMMIT, without ROLLBACK and without an error
ToleratedFailure(i) ==
    /\ txRaised \notin {<<"stmt", i>>, <<"batch", i>>}
    /\ \A j \in (i + 1)..Len(txQueries) :
        (\A k \in (i + 1)..(j - 1) : Failed(k) => txQueries[k])
            => Executed(j)
    /\ (OnlyTolerated /\ txPending # <<"commit", 0>>)
        => /\ Issued(<<"COMMIT", 0>>)
           /\ ~Issued(<<"ROLLBACK", 0>>)
           /\ txRaised = NoError

\* C10 as stated: on every engine a failure of a statement with noError
\* set is swallowed and the transaction goes on to COMMIT.
C10_ToleratedEveryEngine ==
    \A i \in 1..Len(txQueries) :
        (txPc = "done" /\ Failed(i) /\ txQueries[i]) => ToleratedFailure(i)

\* C10 as amended: the same, on every engine except LibSQL over http,
\* whose batch call fails as a whole.
C10_ToleratedUnlessBatched ==
    \A i \in 1..Len(txQueries) :
        (txPc = "done" /\ ~Batched /\ Failed(i) /\ txQueries[i])
            => ToleratedFailure(i)

\* a tolerated failure was followed by a later statement and by COMMIT
C10_Witness ==
    /\ txPc = "done"
    /\ ~Batched
    /\ \E i \in 1..Len(txQueries) :
        /\ Failed(i)
        /\ txQueries[i]
        /\ i < Len(txQueries)
        /\ Executed(i + 1)
    /\ Issued(<<"COMMIT", 0>>)
    /\ txRaised = NoError

\* C11: on the pooled engines, whenever transaction() has ended with a
\* connection acquired (after COMMIT, or after a failure of BEGIN, of a
\* statement, of COMMIT or of ROLLBACK) the connection has been released.
C11_ConnectionReleased ==
    (txPc = "done" /\ txEngine \in Pooled /\ txRaised # <<"connect", 0>>)
        => /\ txConn = "released"
           /\ Issued(<<"RELEASE", 0>>)

\* a MySQL transaction ended with a failed ROLLBACK, the connection released
C11_Witness ==
    /\ txPc = "done"
    /\ txEngine \in MySQLFamily
    /\ txRaised = <<"rollback", 0>>
    /\ txConn = "released"

\* C12: when a statement has failed untolerated and ROLLBACK was issued,
\* transaction() throws the statement's error whether or not the ROLLBACK
\* succeeded, never the error of the ROLLBACK.
C12_OriginalErrorSurfaces ==
    \A i \in 1..Len(txQueries) :
        (/\ txPc = "done"
         /\ txPending = <<"stmt", i>>
         /\ Issued(<<"ROLLBACK", 0>>))
            => txRaised = txPending

\* C13: on every path that runs BEGIN and COMMIT (all but the LibSQL
\* batch), a statement is handed to the driver only when BEGIN has been
\* issued, every statement before it in the list has been executed and
\* has completed or failed, no later one has been executed, and COMMIT has
\* not been issued.
C13_InListOrder ==
    [][\A i \in 1..Len(txQueries) :
        (~Batched /\ ~Executed(i) /\ Executed(i)')
            => /\ Issued(<<"BEGIN", 0>>)
               /\ \A j \in 1..Len(txQueries) :
                    /\ j < i => (Executed(j) /\ j <= Len(txOut))
                    /\ j > i => ~Executed(j)'
               /\ ~Issued(<<"COMMIT", 0>>)]_vars

\* a transaction of two statements or more ran through to COMMIT
C13_Witness ==
    /\ txPc = "done"
    /\ ~Batched
    /\ Len(txQueries) >= 2
    /\ \A i \in 1..Len(txQueries) : Executed(i)
    /\ Issued(<<"COMMIT", 0>>)

\* the server executed statement i without an error
DidNotFail(i) == i <= Len(txOut) /\ (txOut[i] = "ok" \/ i \in txLost)

\* C14: a transaction() that returns, returns the results of exactly the
\* statements that did not fail, in input order: the list is the input
\* list without the tolerated failures, and as long.
C14_ResultsAreTheSuccesses ==
    (txPc = "done" /\ txRaised = NoError)
        => /\ txResults =
                SelectSeq([j \in 1..Len(txQueries) |-> j], DidNotFail)
           /\ Len(txResults) = Len(txQueries)
                - Cardinality({i \in 1..Len(txQueries) : ~DidNotFail(i)})

(***************************************************************************)
(* close() of the embedded engine, called again (SerSpec)                  *)
(***************************************************************************)
\* C15: a close() on a handle whose instance is already closed does not
\* invoke the native close again and does not raise.
C15_CloseIdempotent ==
    [][\A c \in Calls :
        /\ (callPc[c] # "closing" /\ callPc'[c] = "closing")
            => native[callInst'[c]] # "closed"
        /\ (callPc[c] = "closing" /\ callPc'[c] = "err")
            => native[callInst[c]] # "closed"]_vars

(***************************************************************************)
(* Properties of the queue entries of the embedded engine (SerSpec,        *)
(* FairSpec)                                                               *)
(***************************************************************************)
\* the entries waiting in the queue of instance i
Waiting(i) == Range(statementQueue[i])

\* the step dequeues the entry of call c
Dequeues(c) == callPc[c] = "queued" /\ callPc'[c] = "exec"

\* the step is the callback of the dequeued entry of call c
CallsBack(c) ==
    callPc[c] = "exec" /\ callOp[c] \in QueueOps /\ callPc'[c] # "exec"

\* every entry in a queue is there once and has not been dequeued, and
\* every entry that has not been dequeued is in the queue of its instance
EntriesWait ==
    /\ \A i \in Insts : \A j, k \in 1..Len(statementQueue[i]) :
         statementQueue[i][j] = statementQueue[i][k] => j = k
    /\ \A i \in Insts : \A c \in Waiting(i) :
         callPc[c] = "queued" /\ callInst[c] = i
    /\ \A c \in Calls : callPc[c] = "queued" => c \in Waiting(callInst[c])

Ahead(a, b, i) ==
    \E j, k \in 1..Len(statementQueue[i]) :
        j < k /\ statementQueue[i][j] = a /\ statementQueue[i][k] = b

\* C34: the queue of an instance is served first in, first out: an entry
\* that is appended goes behind every entry that waits, entries that wait
\* keep their order, an entry is not dequeued while another is in front of
\* it, and when an entry starts executing the callback of every entry
\* dequeued before it has fired, whether that entry succeeded or failed.
C34_FirstInFirstOut ==
    [][\A i \in Insts : \A a, b \in Calls :
        /\ Ahead(a, b, i)
            => /\ ~Dequeues(b)
               /\ Ahead(a, b, i)' \/ a \notin Waiting(i)'
        /\ (a \in Waiting(i) /\ b \notin Waiting(i) /\ b \in Waiting(i)')
            => Ahead(a, b, i)' \/ a \notin Waiting(i)'
        /\ (Dequeues(b) /\ callInst[b] = i) => Executing(i)' = {b}]_vars

\* a transaction entry failed, the entry enqueued behind it is being
\* executed and a third one waits behind that
C34_Witness ==
    /\ trailing[1] = 1
    /\ \E a, b, c \in Calls :
        /\ callPc[a] = "err"
        /\ callPc[b] = "exec" /\ callOp[b] \in QueueOps
        /\ callPc[c] = "queued"
        /\ a < b /\ b < c

\* C35: the callback of an entry, with an error or with a result, leaves
\* the loop running (it goes on with the next entry or sleeps), and every
\* entry that waits in the queue of an instance on which close() has not
\* been called is eventually dequeued, unless close() is called first.
C35_FailureDoesNotStopTheLoop ==
    /\ [][\A c \in Calls :
            (callPc[c] = "exec" /\ callOp[c] \in QueueOps
                /\ callPc'[c] # callPc[c])
                => /\ callPc'[c] \in {"ok", "err"}
                   /\ loopPc'[callInst[c]] \in {AfterDequeue, "sleep"}]_vars
    /\ \A c \in Calls :
        (callPc[c] = "queued" /\ ~stopping[callInst[c]])
            ~> (callPc[c] # "queued" \/ stopping[callInst[c]])

\* a transaction entry failed and the entry behind it was dequeued, on an
\* instance on which close() has not been called
C35_Witness ==
    /\ trailing[1] = 1
    /\ ~stopping[1]
    /\ \E a, b \in Calls :
        /\ callPc[a] = "err"
        /\ callPc[b] = "exec" /\ callOp[b] \in QueueOps /\ callInst[b] = 1
        /\ \A c \in Calls \ {a, b} : callPc[c] = "new"

\* C36: the instance that a handle obtains from the registry, at the
\* first use of the handle, is neither stopping nor closed: close() has
\* not been called on it and its sqlite3 handle is open.
C36_RegistryHandsOutRunning ==
    [][\A h \in Handles :
        (hdb[h] = NoInst /\ hdb'[h] # NoInst)
            => /\ ~stopping[hdb'[h]]
               /\ native'[hdb'[h]] = "open"]_vars

\* the serializer state of instance i
SerializerState(i) ==
    IF native[i] = "none" THEN "NONE"
    ELSE IF native[i] = "closed" THEN "CLOSED"
    ELSE IF stopping[i] THEN "STOPPING"
    ELSE "RUNNING"

\* the moves RUNNING -> STOPPING -> CLOSED
Forward == {<<"NONE", "RUNNING">>, <<"RUNNING", "STOPPING">>,
            <<"STOPPING", "CLOSED">>}

\* C37: the state of an instance moves only RUNNING -> STOPPING -> CLOSED:
\* the stopping flag, once set, stays set; the polling loop exits only
\* with the flag set and, once it has exited, does not run again; the
\* native close is invoked only with the flag set; a closed sqlite3 handle
\* stays closed.
C37_OnlyForward ==
    [][\A i \in Insts :
        /\ SerializerState(i)' # SerializerState(i)
            => <<SerializerState(i), SerializerState(i)'>> \in Forward
        /\ stopping[i] => stopping'[i]
        /\ loopPc[i] = "exited" => loopPc'[i] = "exited"
        /\ (loopPc[i] # "exited" /\ loopPc'[i] = "exited") => stopping[i]
        /\ (native[i] # "closing" /\ native'[i] = "closing") => stopping'[i]
        /\ native[i] = "closed" => native'[i] = "closed"]_vars

\* an instance has been closed: the flag is set, the loop has exited and
\* the sqlite3 handle is closed
C37_Witness ==
    \E i \in Insts :
        /\ SerializerState(i) = "CLOSED"
        /\ stopping[i]
        /\ loopPc[i] = "exited"

\* C30: on the edge-replicated engine a url that starts with 'http' makes
\* transaction() issue no BEGIN, COMMIT or ROLLBACK but one batch call and
\* nothing else, and a batch that succeeds ran every statement in input
\* order and returns one result per statement in input order; with any
\* other url BEGIN comes first, the statements follow one by one in input
\* order, COMMIT ends a run without untolerated failure, and ROLLBACK
\* follows an untolerated failure.
C30_BatchOverHttp ==
    (txEngine = "LIBSQL" /\ txPc = "done") =>
        LET n == Len(txQueries)
            all == [j \in 1..n |-> j]
        IN  IF txHttp
            THEN /\ \A cmd \in {"BEGIN", "COMMIT", "ROLLBACK"} : ~Issued(<<cmd, 0>>)
                 /\ Head(txLog) = <<"BATCH", 0>>
                 /\ \A k \in 2..Len(txLog) : txLog[k] = <<"S", k - 1>>
                 /\ txRaised = NoError
                        => (Len(txLog) = n + 1 /\ txResults = all)
            ELSE /\ ~Issued(<<"BATCH", 0>>)
                 /\ Head(txLog) = <<"BEGIN", 0>>
                 /\ txRaised # <<"begin", 0>> =>
                     LET m == Len(txOut)
                         tail == SubSeq(txLog, m + 2, Len(txLog))
                     IN  /\ \A k \in 1..m : txLog[k + 1] = <<"S", k>>
                         /\ \A i \in 1..n :
                                (Failed(i) /\ ~txQueries[i]) =>
                                    (m = i /\ tail = << <<"ROLLBACK", 0>> >>)
                         /\ (\A i \in 1..n : Failed(i) => txQueries[i]) =>
                                /\ m = n
                                /\ tail \in { << <<"COMMIT", 0>> >>,
                                              << <<"COMMIT", 0>>, <<"ROLLBACK", 0>> >> }
                         /\ txRaised = NoError => tail = << <<"COMMIT", 0>> >>

\* a batch of MaxStmts statements over http succeeded
C30_Witness ==
    /\ txEngine = "LIBSQL"
    /\ txHttp
    /\ txPc = "done"
    /\ Len(txQueries) = MaxStmts
    /\ txRaised = NoError
    /\ Len(txResults) = MaxStmts
    /\ Issued(<<"BATCH", 0>>)

\* truncate(table, true): one statement per table, none of them marked
\* noError, goes to transaction()
TruncateQueries(n) == [i \in 1..n |-> FALSE]

\* `try { await this.transaction(queries); return true } catch { return
\* false }`
TruncateReturns == txRaised = NoError

\* the transaction() call of a truncate on an adapter of the current
\* revision has returned or raised, and the handle is done with what it
\* was given
Truncated ==
    /\ txEngine \in {"MYSQL", "MARIADB", "SQLITE"}
    /\ Len(txQueries) >= 1
    /\ txQueries = TruncateQueries(Len(txQueries))
    /\ txPc = "done"
    /\ txInFlight = {}

\* the connection, BEGIN, a statement or COMMIT failed
SomethingFailed ==
    \/ txRaised[1] = "connect"
    \/ txPending[1] \in {"begin", "commit"}
    \/ \E i \in DOMAIN txOut : txOut[i] = "err"
    \/ txEvents \cap {"BEGIN", "COMMIT"} # {}

\* C27: truncate with useTransaction returns true when BEGIN, every
\* statement and COMMIT succeeded, and false when any of them failed.
C27_TruncateReports == Truncated => (TruncateReturns <=> ~SomethingFailed)

\* positions of the log at which release() was called on the connection
Releases == {k \in 1..Len(txLog) : txLog[k][1] = "RELEASE"}

\* positions of the log at which a command went to the connection
OnConnection ==
    {k \in 1..Len(txLog) : txLog[k][1] \in {"BEGIN", "S", "COMMIT", "ROLLBACK"}}

\* C32: on the pooled engines the connection of a transaction() call is
\* released once, after COMMIT or ROLLBACK has been issued, and no
\* statement, COMMIT or ROLLBACK goes to the connection after a release.
C32_ReleasedOnceAtTheEnd ==
    txEngine \in Pooled
        => /\ Cardinality(Releases) <= 1
           /\ \A k \in Releases :
                /\ \A j \in OnConnection : j < k
                /\ \E j \in 1..(k - 1) : txLog[j][1] \in {"COMMIT", "ROLLBACK"}
           /\ (txPc = "done" /\ txRaised # <<"connect", 0>>)
                => Cardinality(Releases) = 1

(***************************************************************************)
(* Properties of concurrent calls on a pool (PoolSpec)                     *)
(***************************************************************************)
\* transaction() call k has acquired its connection and its COMMIT or
\* ROLLBACK has not completed
InTransaction(k) ==
    /\ pcKind[k] = "transaction"
    /\ pcConn[k] # NoConn
    /\ pcPc[k] \in {"begin", "stmt", "rollback"}

\* C31: on the pooled engines, while a transaction() call is between the
\* acquisition of its connection and the completion of its COMMIT or
\* ROLLBACK, no other transaction() or query() call has acquired that
\* connection or runs a statement on it.
C31_ConnectionExclusive ==
    \A k \in PoolCalls : \A other \in PoolCalls \ {k} :
        (InTransaction(k) /\ pcConn[other] # NoConn)
            => pcConn[other] # pcConn[k]

(***************************************************************************)
(* Properties of the statement synthesizer (SynSpec)                       *)
(***************************************************************************)
\* C16: prepareMultiInsert fails, on a handle of every type, exactly when
\* the rows are empty or columns are given and some row's length differs
\* from theirs; in every other case it returns at least one statement.
C16_MultiInsertValidation ==
    synOp = "prepareMultiInsert" =>
        LET rejected ==
                \/ synValues = <<>>
                \/ /\ synColumns # <<>>
                   /\ \E i \in DOMAIN synValues : Len(synValues[i]) # Len(synColumns)
        IN  /\ rejected => (synPc = "invalid" /\ synPrepared.error # "")
            /\ ~rejected => /\ synPc = "done"
                            /\ synPrepared.error = ""
                            /\ Len(synPrepared.queries) >= 1

\* a row of the wrong length among rows of the right length was refused
C16_Witness ==
    /\ synOp = "prepareMultiInsert"
    /\ synPc = "invalid"
    /\ Len(synColumns) = Len(TableColumns)
    /\ Len(synValues) = MaxRows
    /\ Len(synValues[1]) = Len(synColumns)
    /\ Len(synValues[MaxRows]) # Len(synColumns)

\* the argument lists the validation refuses
RefusedInsert ==
    \/ synValues = <<>>
    \/ /\ synColumns # <<>>
       /\ \E i \in DOMAIN synValues : Len(synValues[i]) # Len(synColumns)
RefusedUpdate == synColumns = <<>> \/ synPrimaryKey = <<>> \/ RefusedInsert

\* C17: a multiInsert or multiUpdate whose arguments fail validation (no
\* rows, a row of the wrong length, no columns or no primary key) ends
\* with the validation error and has made no call to transaction() or
\* query(), so nothing was acquired, queued or issued and the table is as
\* it was.
C17_ValidationBeforeBackend ==
    (\/ synOp = "multiInsert" /\ RefusedInsert
     \/ synOp = "multiUpdate" /\ RefusedUpdate)
        => /\ synPc = "invalid"
           /\ synPrepared.error # ""
           /\ synBackend = <<>>
           /\ synIdx = 0
           /\ dbTable = dbStart.table

\* a multiUpdate with rows that fit the columns but no primary key
C17_Witness ==
    /\ synOp = "multiUpdate"
    /\ synPc = "invalid"
    /\ synPrimaryKey = <<>>
    /\ synColumns = TableColumns
    /\ synValues # <<>>
    /\ \A i \in DOMAIN synValues : Len(synValues[i]) = Len(synColumns)

\* number of parameters carried by the rows before row i
ParametersBefore(i) == Sum([r \in 1..(i - 1) |-> Len(synValues[r])])

\* C18: for k accepted rows prepareMultiInsert returns, on a handle of the
\* embedded engine or of its edge-replicated variant, k statements with one
\* VALUES group each, the i-th carrying the i-th row as its parameters; on
\* a handle of any other type it returns one statement with k VALUES groups
\* whose parameters are the rows one after the other, in row order.
C18_PerRowOrSingle ==
    (synOp = "prepareMultiInsert" /\ synPc = "done") =>
        LET queries == synPrepared.queries
            k == Len(synValues)
        IN  IF synType \in Embedded
            THEN /\ Len(queries) = k
                 /\ \A i \in 1..k :
                        /\ Len(queries[i].query.groups) = 1
                        /\ queries[i].values = synValues[i]
            ELSE /\ Len(queries) = 1
                 /\ Len(queries[1].query.groups) = k
                 /\ Len(queries[1].values) = ParametersBefore(k + 1)
                 /\ \A i \in 1..k : \A j \in DOMAIN synValues[i] :
                        queries[1].values[ParametersBefore(i) + j] = synValues[i][j]

\* the edge-replicated variant was given rows that differ and returned one
\* statement for each
C18_Witness ==
    /\ synOp = "prepareMultiInsert"
    /\ synPc = "done"
    /\ synType = "LIBSQL"
    /\ Len(synValues) = MaxRows
    /\ synValues[1] # synValues[MaxRows]
    /\ Len(synPrepared.queries) = MaxRows

\* row i of the call, in the column order of the table
RowAsGiven(i) ==
    [c \in DOMAIN TableColumns |-> synValues[i][Position(synColumns, TableColumns[c])]]

\* a multiUpdate of whole rows, keyed by the table's primary key, no key
\* given twice
KeyedUpdate ==
    /\ synOp = "multiUpdate"
    /\ synPrimaryKey = TablePrimaryKey
    /\ Range(synColumns) = Range(TableColumns)
    /\ ~RefusedUpdate
    /\ \A i, j \in DOMAIN synValues :
           KeyOf(RowAsGiven(i)) = KeyOf(RowAsGiven(j)) => i = j

\* C19: multiUpdate is an upsert. On a table that holds a row for key K, a
\* multiUpdate of rows keyed by the primary key succeeds and leaves, for
\* every row given, exactly that row under its key: the row of K now holds
\* the new value and a row whose key was absent is inserted; rows of keys
\* not given stay; no key ever has more than one row.
C19_MultiUpdateUpserts ==
    /\ \A t, u \in dbTable : KeyOf(t) = KeyOf(u) => t = u
    /\ (KeyedUpdate /\ synPc \notin {"start", "executing"}) =>
        /\ synPc = "done"
        /\ \A i \in DOMAIN synValues : RowAsGiven(i) \in dbTable
        /\ \A t \in dbStart.table :
               (\A i \in DOMAIN synValues : KeyOf(RowAsGiven(i)) # KeyOf(t))
                   => t \in dbTable
        /\ \A t \in dbTable :
               \/ t \in dbStart.table
               \/ \E i \in DOMAIN synValues : t = RowAsGiven(i)

\* the row of the key that existed now holds another value, and a row of a
\* key that did not exist has been added
C19_Witness ==
    /\ KeyedUpdate
    /\ synPc = "done"
    /\ \E t \in dbStart.table : \E u \in dbTable :
           KeyOf(u) = KeyOf(t) /\ u # t
    /\ \E u \in dbTable : \A t \in dbStart.table : KeyOf(u) # KeyOf(t)

\* C20: every statement prepareMultiUpdate returns is the statement
\* prepareMultiInsert returns for the same arguments, followed by an upsert
\* clause that assigns exactly the columns outside primaryKey, each once
\* and in the order of columns: ON DUPLICATE KEY UPDATE col = VALUES(col)
\* on MySQL and MariaDB, ON CONFLICT (primaryKey) DO UPDATE SET
\* col = excluded.col on every other type; the parameters are the same.
C20_UpsertClause ==
    (synOp = "prepareMultiUpdate" /\ synPc = "done") =>
        LET insert == prepareMultiInsert(TableName, synColumns, synValues).queries
            update == synPrepared.queries
            mysql == synType \in {"MYSQL", "MARIADB"}
            assigned == SelectSeq(synColumns,
                            LAMBDA c : \A p \in DOMAIN synPrimaryKey : synPrimaryKey[p] # c)
        IN  /\ Len(update) = Len(insert)
            /\ \A i \in DOMAIN update :
                 LET text == update[i].query
                     clause == text.upsert
                 IN  /\ update[i].values = insert[i].values
                     /\ [text EXCEPT !.upsert = NoUpsert] = insert[i].query
                     /\ clause.kind = IF mysql THEN "ON DUPLICATE KEY UPDATE"
                                      ELSE "ON CONFLICT"
                     /\ [t \in DOMAIN clause.target |-> clause.target[t].id]
                            = IF mysql THEN <<>> ELSE synPrimaryKey
                     /\ [u \in DOMAIN clause.updates |-> clause.updates[u].column.id]
                            = assigned
                     /\ \A u \in DOMAIN clause.updates :
                            /\ clause.updates[u].source = clause.updates[u].column
                            /\ clause.updates[u].from = IF mysql THEN "VALUES"
                                                        ELSE "excluded"

\* a MariaDB handle prepared an update of both columns keyed by the first
C20_Witness ==
    /\ synOp = "prepareMultiUpdate"
    /\ synPc = "done"
    /\ synType = "MARIADB"
    /\ synColumns = TableColumns
    /\ synPrimaryKey = TablePrimaryKey
    /\ Len(synPrepared.queries[1].query.upsert.updates) = 1


\* SELECT * FROM <table> WHERE <primary key> = ?
RowsOfKey(key) == {t \in dbTable : KeyOf(t) = key}

\* a multiInsert of whole rows, no key given twice, into the empty table
\* that createTable made
InsertIntoEmpty ==
    /\ synOp = "multiInsert"
    /\ dbStart.table = {}
    /\ Range(synColumns) = Range(TableColumns)
    /\ ~RefusedInsert
    /\ \A i, j \in DOMAIN synValues :
           KeyOf(RowAsGiven(i)) = KeyOf(RowAsGiven(j)) => i = j

\* C21: a multiInsert of N rows with pairwise distinct keys into the empty
\* table with a primary key that createTable made succeeds, the table then
\* holds exactly N rows, and the query by the key of any inserted row
\* returns exactly one row, which holds the values given for that row.
C21_BulkInsertIntoEmpty ==
    (InsertIntoEmpty /\ synPc \notin {"start", "executing"}) =>
        /\ synPc = "done"
        /\ Cardinality(dbTable) = Len(synValues)
        /\ \A i \in DOMAIN synValues :
               RowsOfKey(KeyOf(RowAsGiven(i))) = {RowAsGiven(i)}

\* as many rows as the bound allows, with the columns given in the reverse
\* of the table's order
C21_Witness ==
    /\ InsertIntoEmpty
    /\ synPc = "done"
    /\ Len(synValues) = MaxRows
    /\ synColumns # TableColumns
    /\ Cardinality(dbTable) = MaxRows

\* a multiInsert or multiUpdate has returned
BulkReturned == synOp \in {"multiInsert", "multiUpdate"} /\ synPc = "done"

\* the rows the statements of the call carry
RowsSent ==
    Sum([i \in DOMAIN synPrepared.queries |-> Len(synPrepared.queries[i].query.groups)])

\* C28: a multiInsert or multiUpdate that succeeds returns no rows and, in
\* each of affectedRows, changedRows and length, the sum of that field
\* over the metadata of the statements it executed; it executed all of its
\* statements, and the sums do not depend on useTransaction.
C28_MetadataSummed ==
    BulkReturned =>
        LET r == Aggregated(synUseTx, ExecutedMetaData)
            meta(i) == MetaData(synType, synPrepared.queries[i])
            all == DOMAIN synPrepared.queries
        IN  /\ synIdx = Len(synPrepared.queries)
            /\ r.error = ""
            /\ r.rows = <<>>
            /\ r.meta.affectedRows = Sum([i \in all |-> meta(i).affectedRows])
            /\ r.meta.changedRows = Sum([i \in all |-> meta(i).changedRows])
            /\ r.meta.length = Sum([i \in all |-> meta(i).length])
            /\ r.meta.affectedRows = RowsSent
            /\ Aggregated(TRUE, ExecutedMetaData) = Aggregated(FALSE, ExecutedMetaData)

\* one statement per row, run inside a transaction: two results to add up
C28_Witness ==
    /\ BulkReturned
    /\ synUseTx
    /\ Len(synPrepared.queries) = MaxRows
    /\ Aggregated(synUseTx, ExecutedMetaData).meta.affectedRows = MaxRows

\* C38: every statement a successful prepareMultiInsert returns has as
\* many '?' in its text as it has parameters, also for no columns and rows
\* of different lengths.
C38_PlaceholdersMatchParameters ==
    (synOp = "prepareMultiInsert" /\ synPc = "done")
        => \A i \in DOMAIN synPrepared.queries :
            Placeholders(synPrepared.queries[i].query)
                = Len(synPrepared.queries[i].values)

(***************************************************************************)
(* Properties of the table and index methods (DdlSpec)                     *)
(***************************************************************************)
\* a prepareCreateTable or createTable call has built its statements
TableBuilt == synOp \in {"prepareCreateTable", "createTable"}
\* a createTable, createIndex or dropTable call has returned or thrown
Returned(op) == synOp = op /\ synPc \in {"done", "failed"}

\* C22: the CREATE TABLE statement of prepareCreateTable holds a PRIMARY
\* KEY clause exactly when primaryKey is not empty, and then over exactly
\* the primaryKey columns. A createTable without primary key of a table
\* that does not exist yet succeeds and listTables holds the table; a
\* dropTable after it succeeds and listTables no longer holds the table.
C22_PrimaryKeyOptional ==
    /\ TableBuilt =>
        LET text == synPrepared.queries[1].query
        IN  /\ text.verb = "CREATE TABLE IF NOT EXISTS"
            /\ text.primary_key.clause = "PRIMARY KEY" <=> synPrimaryKey # <<>>
            /\ text.primary_key.clause \in {"", "PRIMARY KEY"}
            /\ text.primary_key.columns =
                   [i \in DOMAIN synPrimaryKey |-> escapeId(synType, synPrimaryKey[i])]
    /\ (Returned("createTable") /\ synPrimaryKey = <<>>
            /\ TableObject(TableName) \notin dbStart.catalog)
        => (synPc = "done" /\ TableName \in listTables)
    /\ (Returned("dropTable") /\ TableObject(TableName) \in dbStart.catalog)
        => (synPc = "done" /\ TableName \notin listTables)

\* a table created without primary key (it is empty, as createTable left
\* it) has been dropped by the second call
C22_Witness ==
    /\ Returned("dropTable")
    /\ synCalls = 2
    /\ synPrimaryKey = <<>>
    /\ Len(synColumns) = Len(TableColumns)
    /\ TableObject(TableName) \in dbStart.catalog
    /\ dbStart.table = {}
    /\ TableName \notin listTables

\* column i of the call carries unique: true
FlaggedUnique(i) == "unique" \in DOMAIN synColumns[i] /\ synColumns[i].unique
\* the position among the columns of the k-th column flagged unique
UniqueAt(k) ==
    CHOOSE i \in DOMAIN synColumns :
        /\ FlaggedUnique(i)
        /\ Cardinality({j \in 1..i : FlaggedUnique(j)}) = k

\* C23: prepareCreateTable returns 1 + u statements, u being the number of
\* columns with unique: true. The first is the CREATE TABLE statement; the
\* k-th after it is CREATE UNIQUE INDEX unique_<table>_<column> on the one
\* column that is the k-th unique column in column order. A column without
\* the flag, or with unique: false, gets no index statement.
C23_OneIndexPerUniqueColumn ==
    TableBuilt =>
        LET queries == synPrepared.queries
            u == Cardinality({i \in DOMAIN synColumns : FlaggedUnique(i)})
        IN  /\ Len(queries) = 1 + u
            /\ queries[1].query.verb = "CREATE TABLE IF NOT EXISTS"
            /\ Len(queries[1].query.fields) = Len(synColumns)
            /\ \A k \in 1..u :
                   LET text == queries[k + 1].query
                       column == synColumns[UniqueAt(k)].name
                   IN  /\ text.verb = "CREATE"
                       /\ text.type = "UNIQUE"
                       /\ text.object = "INDEX"
                       /\ text.table = escapeId(synType, TableName)
                       /\ text.name = <<"unique", TableName, column>>
                       /\ text.fields = <<escapeId(synType, column)>>

\* of two columns the first says unique: false and the second unique:
\* true: one index statement, on the second column
C23_Witness ==
    /\ synOp = "prepareCreateTable"
    /\ Len(synColumns) = 2
    /\ "unique" \in DOMAIN synColumns[1] /\ ~synColumns[1].unique
    /\ FlaggedUnique(2)
    /\ Len(synPrepared.queries) = 2
    /\ synPrepared.queries[2].query.fields = <<escapeId(synType, TableColumns[2])>>

\* column i of the call defines a default
Defaulted(i) == "default" \in DOMAIN synColumns[i]
\* the position among the columns of the k-th column with a default
DefaultAt(k) ==
    CHOOSE i \in DOMAIN synColumns :
        /\ Defaulted(i)
        /\ Cardinality({j \in 1..i : Defaulted(j)}) = k

\* C24: the parameters of the CREATE TABLE statement of prepareCreateTable
\* are the default values of the columns that define one, in column order;
\* the text holds DEFAULT ? for exactly those columns, so as many
\* placeholders as parameters; the index statements have no parameters.
C24_DefaultsAreParameters ==
    TableBuilt =>
        LET queries == synPrepared.queries
            d == Cardinality({i \in DOMAIN synColumns : Defaulted(i)})
            values == Parameters(queries[1])
            text == queries[1].query
        IN  /\ Len(values) = d
            /\ \A k \in 1..d : values[k] = synColumns[DefaultAt(k)].default
            /\ \A i \in DOMAIN synColumns :
                   text.fields[i].default = IF Defaulted(i) THEN "DEFAULT ?" ELSE ""
            /\ Cardinality({i \in DOMAIN text.fields :
                                text.fields[i].default = "DEFAULT ?"}) = Len(values)
            /\ \A k \in 2..Len(queries) :
                   "values" \notin DOMAIN queries[k] /\ Parameters(queries[k]) = <<>>

\* both columns define a default and the second is unique: two parameters
\* in column order, and an index statement without parameters
C24_Witness ==
    /\ synOp = "prepareCreateTable"
    /\ Len(synColumns) = 2
    /\ Defaulted(1) /\ Defaulted(2)
    /\ synColumns[1].default # synColumns[2].default
    /\ Parameters(synPrepared.queries[1]) =
           <<synColumns[1].default, synColumns[2].default>>
    /\ Len(synPrepared.queries) = 2

\* a prepareCreateIndex or createIndex call has built its statement
IndexBuilt == synOp \in {"prepareCreateIndex", "createIndex"}

\* C25: prepareCreateIndex returns one statement. On a type whose server
\* has no CREATE INDEX IF NOT EXISTS (MySQL) the text is written without
\* IF NOT EXISTS and the statement is marked noError; on every other type
\* the text holds IF NOT EXISTS and the statement is not marked noError.
C25_NoErrorWithoutIfNotExists ==
    IndexBuilt =>
        LET q == synPrepared.queries[1]
        IN  /\ Len(synPrepared.queries) = 1
            /\ q.query.verb = "CREATE" /\ q.query.object = "INDEX"
            /\ q.query.if_not_exists \in {"", "IF NOT EXISTS"}
            /\ NoErrorFlag(q) <=> q.query.if_not_exists = ""
            /\ NoErrorFlag(q) <=> ForbidsIfNotExists(synType)

\* the statement a MySQL handle builds for an index over both columns
C25_Witness ==
    /\ synOp = "prepareCreateIndex"
    /\ synType = "MYSQL"
    /\ Len(synColumns) = Len(TableColumns)
    /\ NoErrorFlag(synPrepared.queries[1])
    /\ synPrepared.queries[1].query.if_not_exists = ""

\* C26: dropTable of one table returns without raising whether or not the
\* table exists when it is called, so also when it is called a second
\* time, on every type of both revisions: it sends one statement for the
\* table through transaction(), the server accepts it, and afterwards
\* listTables does not hold the table.
C26_DropTableIdempotent ==
    synOp = "dropTable" =>
        /\ Len(synPrepared.queries) = 1
        /\ synPrepared.queries[1].query.table = escapeId(synType, TableName)
        /\ synBackend = <<"transaction">>
        /\ synPc # "failed"
        /\ synPc = "done" => TableName \notin listTables

\* the second of two dropTable calls, on a table that no longer exists
C26_Witness ==
    /\ Returned("dropTable")
    /\ synCalls = 2
    /\ synColumns = <<>>
    /\ dbStart.catalog = {}
    /\ synPc = "done"

\* the table or index that statement q creates
Creates(q) ==
    IF q.query.verb = "CREATE TABLE IF NOT EXISTS"
    THEN TableObject(q.query.table.id)
    ELSE IndexObject(q.query.name, q.query.table.id)

\* everything the statements of the call create was there when the call
\* was made
AlreadyBuilt ==
    \A i \in DOMAIN synPrepared.queries :
        Creates(synPrepared.queries[i]) \in dbStart.catalog

\* C40: a createTable or createIndex call that is made again, when the
\* table and the indexes it creates exist already, does not raise, on any
\* engine and with either value of useTransaction.
C40_CreateIdempotent ==
    (synOp \in {"createTable", "createIndex"} /\ synCalls >= 2 /\ AlreadyBuilt)
        => synPc # "failed"

(***************************************************************************)
(* Properties of transformQuery (TqFairSpec)                               *)
(***************************************************************************)
\* number of '?' in text before position i
Before(text, i) == Cardinality({j \in 1..(i - 1) : text[j] = "?"})

\* C39: transformQuery returns for every text, and what it returns has no
\* '?', has $k where the k-th '?' from the left was, for every k up to the
\* number of '?', and has every other character of the text where it was,
\* in the same order.
C39_PlaceholdersNumbered ==
    /\ <>(tqPc = "returned")
    /\ [](tqPc = "returned" =>
            LET n == Before(tqInput, Len(tqInput) + 1) IN
            /\ ~includes(tqQuery, "?")
            /\ Len(tqQuery) = Len(tqInput) + n
            /\ \A i \in DOMAIN tqInput :
                LET k == Before(tqInput, i) + 1
                    at == i + k - 1
                IN  IF tqInput[i] = "?"
                    THEN tqQuery[at] = "$" /\ tqQuery[at + 1] = ToString(k)
                    ELSE tqQuery[at] = tqInput[i])

\* a text with two '?' and a letter between them has been rewritten
C39_Witness ==
    /\ tqPc = "returned"
    /\ tqInput = <<"?", "a", "?">>
    /\ tqQuery = <<"$", "1", "a", "$", "2">>

(***************************************************************************)
(* Properties of use() (UseSpec)                                           *)
(***************************************************************************)
\* C29: a use(target) call that returns hands back a handle that is not
\* the receiver, of the receiver's class and pointed at the target, and
\* leaves the receiver's config, its own target included, as it was.
C29_UseReturnsNewHandle ==
    (useCall.receiver # 0 /\ ~useCall.raised) =>
        /\ useCall.returned \in EngineHandles
        /\ useCall.returned # useCall.receiver
        /\ useHandles[useCall.receiver].config = useCall.before
        /\ useHandles[useCall.returned].class = useHandles[useCall.receiver].class
        /\ useHandles[useCall.returned].config.target.name = useCall.target
====
